---- MODULE Spec2Model ----
(***************************************************************************)
(* A model of the imap-icloud-migration engine: the SQLite state ledger    *)
(* (storage/state_db.py), the evidence store (storage/eml_store.py) and    *)
(* the asyncio pipeline that drives them (pipeline/orchestrator.py,        *)
(* imap/client.py).                                                        *)
(*                                                                         *)
(* Three specifications share the ledger and evidence-store operators:     *)
(*   Spec        the pipeline: a sequence of runs of                       *)
(*               MigrationOrchestrator.run, each of which may be killed    *)
(*   SpecLedger  any sequence of StateDb operations                        *)
(*   SpecEml     any sequence of EMLStore.write_immutable calls            *)
(*                                                                         *)
(* Python's None / SQL NULL is the empty tuple, a present value v is <<v>>.*)
(* Timestamps (created_at, updated_at, last_error_at) are left out: no     *)
(* decision of the code reads them.                                        *)
(***************************************************************************)
EXTENDS Integers, Sequences, FiniteSets, TLC

VARIABLES
    messages,   \* ledger table `messages`: a sequence, row id = index (AUTOINCREMENT)
    folders,    \* ledger table `folders`: folder name -> [uidvalidity, last_uid_seen]
    files,      \* evidence directory: path -> [bytes, mode]
    lastOp,     \* the last operation applied and what it returned
    wr,         \* the write_immutable call in progress
    okWrites,   \* the (path, bytes) pairs a write_immutable call has returned for
    server,     \* the IMAP account: the UIDVALIDITY its SELECT responses carry
    run,        \* MigrationOrchestrator.run: its arguments, settings and position
    mailbox_tasks, \* mailbox -> the position and locals of its _process_mailbox
    uid_tasks,  \* <<mailbox, uid>> -> the position and locals of its _process_uid
    queue,      \* asyncio.Queue[GmailWorkItem | None]
    workers,    \* worker index -> the position and item of its _gmail_worker
    gmail,      \* the Gmail account: the evidence files ingested, in order
    runs,       \* what each ended run printed and did: the history of runs
    pool,       \* ImapPool: its _clients list, its _queue of idle sessions, _connected
    clients,    \* session index -> ImapClient: its _imap state and its _lock
    acquirers,  \* task -> its position in `async with pool.acquire()`
    callers,    \* task -> the ImapClient command it calls and its position in it
    teardown    \* the ImapPool.logout call: its position and loop index

NULL == <<>>
Some(v) == <<v>>
Val(o) == o[1]

Min(S) == CHOOSE x \in S : \A y \in S : x <= y
Max(S) == CHOOSE x \in S : \A y \in S : x >= y
Range(f) == {f[i] : i \in DOMAIN f}

(***************************************************************************)
(* Text.  Strings the code inspects character by character are looked up   *)
(* as sequences of one-character strings.                                  *)
(***************************************************************************)
Chars(s) ==
    CASE s = "INBOX" -> <<"I", "N", "B", "O", "X">>
      [] s = "Sent Messages" -> <<"S", "e", "n", "t", " ", "M", "e", "s", "s", "a", "g", "e", "s">>
      [] s = "Sent_Messages" -> <<"S", "e", "n", "t", "_", "M", "e", "s", "s", "a", "g", "e", "s">>
      [] s = "a/b" -> <<"a", "/", "b">>
      [] s = "a b" -> <<"a", " ", "b">>
      [] s = ".." -> <<".", ".">>
      [] s = " <ABC@EXAMPLE.COM> " ->
            <<" ", "<", "A", "B", "C", "@", "E", "X", ">", " ">>
      [] s = "<abc@ex>" -> <<"<", "a", "b", "c", "@", "e", "x", ">">>
      [] s = "<a@b> extra" -> <<"<", "a", "@", "b", ">", " ", "e", "x">>
      [] s = "" -> <<>>

UpperLetters == <<"A", "B", "C", "E", "X">>
LowerLetters == <<"a", "b", "c", "e", "x">>

LowerChar(c) ==
    IF \E i \in DOMAIN UpperLetters : UpperLetters[i] = c
    THEN LowerLetters[CHOOSE i \in DOMAIN UpperLetters : UpperLetters[i] = c]
    ELSE c

RECURSIVE StripLeft(_, _)
StripLeft(cs, drop) ==
    IF cs # <<>> /\ Head(cs) \in drop THEN StripLeft(Tail(cs), drop) ELSE cs

RECURSIVE StripRight(_, _)
StripRight(cs, drop) ==
    IF cs # <<>> /\ cs[Len(cs)] \in drop
    THEN StripRight(SubSeq(cs, 1, Len(cs) - 1), drop)
    ELSE cs

Strip(cs, drop) == StripRight(StripLeft(cs, drop), drop)

Whitespace == {" "}

(***************************************************************************)
(* utils/fingerprint.py, utils/email.py                                    *)
(***************************************************************************)
\* hashlib.sha256: injective on the inputs of the model.
Sha256Hex(data) == <<"sha256", data>>

\* A fetched RFC822 message, as BytesParser presents it: the header values
\* the code reads (an address header is the list getaddresses returns), the
\* body and len(raw).
RawMsg(from, to, subject, mid, body, n) ==
    [from_ |-> from, to |-> to, subject |-> subject, message_id |-> mid,
     body |-> body, len |-> n]

MsgA == RawMsg(Some(<<"sender@example.com">>), Some(<<"Andrew@Vectorfy.co">>),
               "Hi", Some(" <ABC@EXAMPLE.COM> "), <<"B", "o", "d", "y">>, 80)
MsgB == RawMsg(Some(<<"sender@example.com">>), Some(<<"someoneelse@example.com">>),
               "Hi", NULL, <<"B", "o", "d", "y">>, 70)
MsgC == RawMsg(Some(<<"andrew@vectorfy.co">>), Some(<<"someoneelse@example.com">>),
               "Re", NULL, <<"O", "k">>, 60)
RawMessages == {MsgA, MsgB, MsgC}

LowerStr(s) == IF s = "Andrew@Vectorfy.co" THEN "andrew@vectorfy.co" ELSE s

ExtractEmailAddresses(value) ==
    IF value = NULL THEN {} ELSE {LowerStr(a) : a \in Range(Val(value))}

NormalizeMessageId(value) ==
    IF value = NULL THEN NULL
    ELSE LET v0 == Strip(Chars(Val(value)), Whitespace)
             sp == {i \in DOMAIN v0 : v0[i] = " "}
             v1 == IF sp = {} THEN v0
                   ELSE Strip(SubSeq(v0, 1, Min(sp) - 1), Whitespace)
             v2 == IF v1 # <<>> /\ Head(v1) = "<" /\ v1[Len(v1)] = ">"
                   THEN Strip(SubSeq(v1, 2, Len(v1) - 1), Whitespace)
                   ELSE v1
         IN IF v0 = <<>> \/ v2 = <<>> THEN NULL
            ELSE Some(<<"<">> \o [i \in DOMAIN v2 |-> LowerChar(v2[i])] \o <<">">>)

FingerprintBodyBytes == 4096

BodyPrefix(raw, maxBytes) ==
    IF maxBytes <= 0 THEN <<>>
    ELSE SubSeq(raw.body, 1, IF Len(raw.body) < maxBytes THEN Len(raw.body) ELSE maxBytes)

ComputeFingerprint(raw, bodyBytes) ==
    [fingerprint |-> Sha256Hex(<<"", raw.from_, raw.to, raw.subject, raw.len,
                                 BodyPrefix(raw, bodyBytes)>>),
     message_id_norm |-> NormalizeMessageId(raw.message_id)]

AddressFilterSenderOnly(targets, raw) ==
    \/ targets = {}
    \/ ExtractEmailAddresses(raw.from_) \cap targets # {}

\* AddressFilter.matches with include_sender = include_recipients = True
\* (the defaults); the recipient headers other than To are absent from the
\* messages of the model.
AddressFilterMatches(targets, raw) ==
    \/ targets = {}
    \/ ExtractEmailAddresses(raw.from_) \cap targets # {}
    \/ ExtractEmailAddresses(raw.to) \cap targets # {}

(***************************************************************************)
(* storage/state_db.py                                                     *)
(***************************************************************************)
Statuses == {"discovered", "downloaded", "imported", "skipped_duplicate",
             "skipped_filtered", "failed"}

NewRow(folder, uid, uidvalidity, mid, fp, size) ==
    [folder |-> folder, uid |-> uid, uidvalidity |-> uidvalidity,
     status |-> "discovered", message_id_norm |-> mid, fingerprint |-> fp,
     eml_path |-> NULL, eml_sha256 |-> NULL, size_bytes |-> size,
     gmail_message_id |-> NULL, labels |-> NULL, attempts |-> 0,
     last_error |-> NULL]

\* UNIQUE(folder, uid, uidvalidity): SQLite holds two NULLs to be distinct, so
\* a row conflicts with the inserted key only when its uidvalidity is given.
KeyConflict(r, folder, uid, uidvalidity) ==
    /\ r.folder = folder
    /\ r.uid = uid
    /\ uidvalidity # NULL
    /\ r.uidvalidity = uidvalidity

\* WHERE folder=? AND uid=? AND uidvalidity IS ?
KeyIs(r, folder, uid, uidvalidity) ==
    r.folder = folder /\ r.uid = uid /\ r.uidvalidity = uidvalidity

UpsertStatusAlwaysDiscovered(status) == "discovered"

UpsertStatusKeepsAll(status) == status

\* status=CASE WHEN status IN ('skipped_filtered', 'failed') THEN 'discovered'
UpsertStatus(status) ==
    IF status \in {"skipped_filtered", "failed"} THEN "discovered" ELSE status

\* The result: the table, and the id of the row fetchone() hands back (the
\* first in rowid order of those WHERE selects).
UpsertMessageDiscovered(msgs, folder, uid, uidvalidity, mid, fp, size) ==
    LET hit == {i \in DOMAIN msgs : KeyConflict(msgs[i], folder, uid, uidvalidity)}
        after ==
            IF hit = {}
            THEN Append(msgs, NewRow(folder, uid, uidvalidity, mid, fp, size))
            ELSE [i \in DOMAIN msgs |->
                    IF i \in hit
                    THEN [msgs[i] EXCEPT !.message_id_norm = mid,
                                         !.fingerprint = fp,
                                         !.size_bytes = size,
                                         !.status = UpsertStatus(@)]
                    ELSE msgs[i]]
        sel == {i \in DOMAIN after : KeyIs(after[i], folder, uid, uidvalidity)}
    IN [messages |-> after, id |-> Min(sel)]

\* Each mark_* is UPDATE messages SET ... WHERE id=?: no such row, no change.
MarkDownloadedNoPath(msgs, id, path, sha) ==
    LET Set(r) == [r EXCEPT !.status = "downloaded"]
    IN [i \in DOMAIN msgs |-> IF i = id THEN Set(msgs[i]) ELSE msgs[i]]

MarkDownloaded(msgs, id, path, sha) ==
    LET Set(r) == [r EXCEPT !.status = "downloaded", !.eml_path = Some(path),
                            !.eml_sha256 = Some(sha)]
    IN [i \in DOMAIN msgs |-> IF i = id THEN Set(msgs[i]) ELSE msgs[i]]

MarkImported(msgs, id, gmailId, labelIds) ==
    LET Set(r) == [r EXCEPT !.status = "imported", !.gmail_message_id = Some(gmailId),
                            !.labels = Some(labelIds)]
    IN [i \in DOMAIN msgs |-> IF i = id THEN Set(msgs[i]) ELSE msgs[i]]

MarkFailedKeepsAttempts(msgs, id, error) ==
    LET Set(r) == [r EXCEPT !.status = "failed", !.last_error = Some(error)]
    IN [i \in DOMAIN msgs |-> IF i = id THEN Set(msgs[i]) ELSE msgs[i]]

MarkFailed(msgs, id, error) ==
    LET Set(r) == [r EXCEPT !.status = "failed", !.attempts = @ + 1,
                            !.last_error = Some(error)]
    IN [i \in DOMAIN msgs |-> IF i = id THEN Set(msgs[i]) ELSE msgs[i]]

MarkSkippedDuplicate(msgs, id, reason) ==
    LET Set(r) == [r EXCEPT !.status = "skipped_duplicate", !.last_error = Some(reason)]
    IN [i \in DOMAIN msgs |-> IF i = id THEN Set(msgs[i]) ELSE msgs[i]]

MarkSkippedFiltered(msgs, id, reason) ==
    LET Set(r) == [r EXCEPT !.status = "skipped_filtered", !.last_error = Some(reason)]
    IN [i \in DOMAIN msgs |-> IF i = id THEN Set(msgs[i]) ELSE msgs[i]]

\* INSERT ... ON CONFLICT(name) DO UPDATE: name is the primary key.
UpsertFolder(flds, name, uidvalidity, lastUidSeen) ==
    [n \in DOMAIN flds \cup {name} |->
        IF n = name THEN [uidvalidity |-> uidvalidity, last_uid_seen |-> lastUidSeen]
        ELSE flds[n]]

GetFolder(flds, name) == IF name \in DOMAIN flds THEN Some(flds[name]) ELSE NULL

UpdateFolderCheckpointUidvalidityOnly(flds, name, uidvalidity, lastUidSeen) ==
    UpsertFolder(flds, name, uidvalidity, NULL)

UpdateFolderCheckpoint(flds, name, uidvalidity, lastUidSeen) ==
    UpsertFolder(flds, name, uidvalidity, lastUidSeen)

FindExistingImportedNone(msgs, mid, fp) == NULL

\* LIMIT 1 without ORDER BY: the first match in rowid order.
FindExistingImported(msgs, mid, fp) ==
    LET byMid == {i \in DOMAIN msgs : /\ msgs[i].gmail_message_id # NULL
                                      /\ mid # NULL
                                      /\ msgs[i].message_id_norm = mid}
        byFp == {i \in DOMAIN msgs : /\ msgs[i].gmail_message_id # NULL
                                     /\ msgs[i].fingerprint = fp}
    IN IF byMid # {} THEN Some(Min(byMid))
       ELSE IF byFp # {} THEN Some(Min(byFp))
       ELSE NULL

CountFolderMessages(msgs, folder) ==
    Cardinality({i \in DOMAIN msgs : msgs[i].status = "imported" /\ msgs[i].folder = folder})

CountsByStatus(msgs) ==
    [s \in Statuses |-> Cardinality({i \in DOMAIN msgs : msgs[i].status = s})]

ResetStatusesWithoutDuplicate == {"skipped_filtered", "failed"}

\* WHERE status IN ('skipped_filtered', 'failed', 'skipped_duplicate')
ResetStatuses == {"skipped_filtered", "failed", "skipped_duplicate"}

\* One transaction: the folders, the messages, and cursor.rowcount.
ResetSkippedAndFailed(msgs, flds) ==
    LET hit == {i \in DOMAIN msgs : msgs[i].status \in ResetStatuses}
    IN [folders |-> [n \in DOMAIN flds |-> [flds[n] EXCEPT !.last_uid_seen = Some(0)]],
        messages |-> [i \in DOMAIN msgs |->
                        IF i \in hit THEN [msgs[i] EXCEPT !.status = "discovered"]
                        ELSE msgs[i]],
        count |-> Cardinality(hit)]

(***************************************************************************)
(* storage/eml_store.py                                                    *)
(***************************************************************************)
\* [A-Za-z0-9._-], over the characters the model's folder names use.
SafeChars == {"I", "N", "B", "O", "X", "S", "M", "e", "n", "t", "s", "a", "g", "b",
              ".", "_", "-"}

\* _FOLDER_SAFE_RE.sub("_", ...): each run of other characters becomes one "_".
RECURSIVE SubUnsafeRuns(_, _)
SubUnsafeRuns(cs, inRun) ==
    IF cs = <<>> THEN <<>>
    ELSE IF Head(cs) \in SafeChars THEN <<Head(cs)>> \o SubUnsafeRuns(Tail(cs), FALSE)
    ELSE IF inRun THEN SubUnsafeRuns(Tail(cs), TRUE)
    ELSE <<"_">> \o SubUnsafeRuns(Tail(cs), TRUE)

SafeFolderName(folder) ==
    LET stripped == Strip(Chars(folder), Whitespace)
        noSep == [i \in DOMAIN stripped |-> IF stripped[i] = "/" THEN "_" ELSE stripped[i]]
        subbed == SubUnsafeRuns(noSep, FALSE)
        trimmed == Strip(subbed, {".", "_", "-"})
    IN IF trimmed = <<>> THEN <<"f", "o", "l", "d", "e", "r">> ELSE trimmed

\* folder_dir / f"{uidvalidity or 0}-{uid}.eml"
EvidencePath(folder, uidvalidity, uid) ==
    <<SafeFolderName(folder), IF uidvalidity = NULL THEN 0 ELSE Val(uidvalidity), uid, "eml">>

\* tempfile.mkstemp(prefix=target.name + ".", suffix=".tmp", dir=folder_dir):
\* a name no file of the directory has.
TempPath(fs, target) ==
    LET used == {k \in 1..(Cardinality(DOMAIN fs) + 1) : <<target, "tmp", k>> \in DOMAIN fs}
    IN <<target, "tmp", Min((1..(Cardinality(DOMAIN fs) + 1)) \ used)>>

PutFile(fs, path, file) == [q \in DOMAIN fs \cup {path} |-> IF q = path THEN file ELSE fs[q]]
DelFile(fs, path) == [q \in DOMAIN fs \ {path} |-> fs[q]]

EmlResult(path, sha, size) == [path |-> path, sha256 |-> sha, size_bytes |-> size]

EmlExistingAlwaysMatches(fs, target, raw) == TRUE

\* if target.exists(): compare sha256_file_hex(target) with sha256_hex(raw).
EmlExistingMatches(fs, target, raw) == Sha256Hex(fs[target].bytes) = Sha256Hex(raw)

\* mkstemp: an empty file, mode 0o600.
EmlCreateTemp(fs, tmp) == PutFile(fs, tmp, [bytes |-> <<>>, mode |-> "0o600"])

\* handle.write(raw); flush; fsync
EmlWriteTemp(fs, tmp, raw) == PutFile(fs, tmp, [fs[tmp] EXCEPT !.bytes = raw])

EmlReplaceUnsynced(fs, tmp, target) ==
    PutFile(DelFile(fs, tmp), target, [fs[tmp] EXCEPT !.bytes = <<"partial", @>>])

\* os.replace(tmp_path, target)
EmlReplace(fs, tmp, target) == PutFile(DelFile(fs, tmp), target, fs[tmp])

EmlChmodSkipped(fs, target) == fs

\* os.chmod(target, 0o444)
EmlChmod(fs, target) == PutFile(fs, target, [fs[target] EXCEPT !.mode = "0o444"])

\* finally: if tmp_path.exists(): tmp_path.unlink()
EmlCleanup(fs, tmp) == IF tmp \in DOMAIN fs THEN DelFile(fs, tmp) ELSE fs

\* A whole call that meets no I/O error: the files it leaves, and what it
\* returns or raises.
WriteImmutable(fs, folder, uidvalidity, uid, raw) ==
    LET target == EvidencePath(folder, uidvalidity, uid)
        tmp == TempPath(fs, target)
    IN IF target \in DOMAIN fs
       THEN IF EmlExistingMatches(fs, target, raw)
            THEN [files |-> fs, outcome |-> "ok", wrote |-> FALSE,
                  ret |-> EmlResult(target, Sha256Hex(fs[target].bytes), fs[target].bytes.len)]
            ELSE [files |-> fs, outcome |-> "ValueError", wrote |-> FALSE, ret |-> NULL]
       ELSE [files |-> EmlCleanup(
                          EmlChmod(EmlReplace(EmlWriteTemp(EmlCreateTemp(fs, tmp), tmp, raw),
                                              tmp, target), target), tmp),
             outcome |-> "ok", wrote |-> TRUE,
             ret |-> EmlResult(target, Sha256Hex(raw), raw.len)]

(***************************************************************************)
(* SpecLedger: any sequence of StateDb operations on a small key space.    *)
(***************************************************************************)
MaxRows == 2
MaxAttempts == 1
MaxUid == 2

UidValidities == {NULL, Some(1)}

\* The pipeline's variables, and their values while no run is under way.
pipe == <<server, run, mailbox_tasks, uid_tasks, queue, workers, gmail, runs>>

imap == <<pool, clients, acquirers, callers, teardown>>

PoolSize == 2

NumAcquirers == 3

NumCallers == 2

\* ImapPool.__init__ and the ImapClient objects it will create.
NewPool == [clients |-> <<>>, queue |-> <<>>, connected |-> FALSE, failed |-> FALSE]

NewClient == [imap |-> "none", locked |-> FALSE]

NoCall == [pc |-> "idle", client |-> 0, owner |-> 0, cmd |-> "none"]

NoAcquire == [pc |-> "idle", client |-> 0]

NoTeardown == [pc |-> "idle", idx |-> 0]

ImapInit ==
    /\ pool = NewPool
    /\ clients = [i \in 1..PoolSize |-> NewClient]
    /\ acquirers = [a \in 1..NumAcquirers |-> NoAcquire]
    /\ callers = [c \in 1..NumCallers |-> NoCall]
    /\ teardown = NoTeardown

NoRun == [phase |-> "off"]

LedgerFolders == {"INBOX"}
LedgerUids == {1}
LedgerRaw == {MsgA, MsgB}

NoOp == [op |-> "none"]
Idle == [pc |-> "idle"]

LedgerInit ==
    /\ messages = <<>>
    /\ folders = <<>>
    /\ files = <<>>
    /\ lastOp = NoOp
    /\ wr = Idle
    /\ okWrites = {}
    /\ server = [uidvalidity |-> NULL]
    /\ run = NoRun
    /\ mailbox_tasks = <<>>
    /\ uid_tasks = <<>>
    /\ queue = <<>>
    /\ workers = <<>>
    /\ gmail = <<>>
    /\ runs = <<>>
    /\ ImapInit

LUpsertMessageDiscovered ==
    \E f \in LedgerFolders, u \in LedgerUids, uv \in UidValidities, raw \in LedgerRaw :
        LET fp == ComputeFingerprint(raw, FingerprintBodyBytes)
            res == UpsertMessageDiscovered(messages, f, u, uv, fp.message_id_norm,
                                           fp.fingerprint, raw.len)
        IN /\ Len(res.messages) <= MaxRows
           /\ messages' = res.messages
           /\ lastOp' = [op |-> "upsert_message_discovered", folder |-> f, uid |-> u,
                         uidvalidity |-> uv, ret |-> res.id]
           /\ UNCHANGED <<folders, files, wr, okWrites, pipe, imap>>

LMarkDownloaded ==
    \E id \in DOMAIN messages :
        /\ messages' = MarkDownloaded(messages, id, "a.eml", "deadbeef")
        /\ lastOp' = [op |-> "mark_downloaded"]
        /\ UNCHANGED <<folders, files, wr, okWrites, pipe, imap>>

LMarkImported ==
    \E id \in DOMAIN messages :
        /\ messages' = MarkImported(messages, id, "gid", <<"LBL">>)
        /\ lastOp' = [op |-> "mark_imported"]
        /\ UNCHANGED <<folders, files, wr, okWrites, pipe, imap>>

LMarkFailed ==
    \E id \in DOMAIN messages :
        /\ messages[id].attempts < MaxAttempts
        /\ messages' = MarkFailed(messages, id, "boom")
        /\ lastOp' = [op |-> "mark_failed"]
        /\ UNCHANGED <<folders, files, wr, okWrites, pipe, imap>>

LMarkSkippedDuplicate ==
    \E id \in DOMAIN messages :
        /\ messages' = MarkSkippedDuplicate(messages, id, "boom")
        /\ lastOp' = [op |-> "mark_skipped_duplicate"]
        /\ UNCHANGED <<folders, files, wr, okWrites, pipe, imap>>

LMarkSkippedFiltered ==
    \E id \in DOMAIN messages :
        /\ messages' = MarkSkippedFiltered(messages, id, "boom")
        /\ lastOp' = [op |-> "mark_skipped_filtered"]
        /\ UNCHANGED <<folders, files, wr, okWrites, pipe, imap>>

LUpsertFolder ==
    \E f \in LedgerFolders :
        /\ folders' = UpsertFolder(folders, f, Some(1), Some(MaxUid))
        /\ lastOp' = [op |-> "upsert_folder", folder |-> f]
        /\ UNCHANGED <<messages, files, wr, okWrites, pipe, imap>>

LResetSkippedAndFailed ==
    LET res == ResetSkippedAndFailed(messages, folders)
    IN /\ messages' = res.messages
       /\ folders' = res.folders
       /\ lastOp' = [op |-> "reset_skipped_and_failed", ret |-> res.count]
       /\ UNCHANGED <<files, wr, okWrites, pipe, imap>>

LedgerNext ==
    \/ LUpsertMessageDiscovered
    \/ LMarkDownloaded
    \/ LMarkImported
    \/ LMarkFailed
    \/ LMarkSkippedDuplicate
    \/ LMarkSkippedFiltered
    \/ LUpsertFolder
    \/ LResetSkippedAndFailed

vars == <<messages, folders, files, lastOp, wr, okWrites, pipe, imap>>

SpecLedger == LedgerInit /\ [][LedgerNext]_vars

(***************************************************************************)
(* SpecEml: any sequence of EMLStore.write_immutable calls, one at a time  *)
(* (the method is synchronous), each of which may meet an I/O error or be  *)
(* cut short by the death of the process.                                  *)
(***************************************************************************)
MaxTempLeft == 1

EmlFolders == {"a/b", "a b"}
EmlUids == {1}
EmlRaw == {MsgA, MsgB}

TempFiles(fs) == {q \in DOMAIN fs : Len(q) = 3}

EmlInit ==
    /\ messages = <<>>
    /\ folders = <<>>
    /\ files = <<>>
    /\ lastOp = NoOp
    /\ wr = Idle
    /\ okWrites = {}
    /\ server = [uidvalidity |-> NULL]
    /\ run = NoRun
    /\ mailbox_tasks = <<>>
    /\ uid_tasks = <<>>
    /\ queue = <<>>
    /\ workers = <<>>
    /\ gmail = <<>>
    /\ runs = <<>>
    /\ ImapInit

EmlDone(path, raw, outcome, wrote, ret) ==
    [op |-> "write_immutable", path |-> path, raw |-> raw, outcome |-> outcome,
     wrote |-> wrote, ret |-> ret]

\* The call up to its first file-system change: the target exists (return or
\* raise), or the temp file is made.
EmlBegin ==
    /\ wr.pc = "idle"
    /\ \E f \in EmlFolders, uv \in UidValidities, u \in EmlUids, raw \in EmlRaw :
        LET target == EvidencePath(f, uv, u)
            tmp == TempPath(files, target)
            whole == WriteImmutable(files, f, uv, u, raw)
        IN IF target \in DOMAIN files
           THEN /\ lastOp' = EmlDone(target, raw, whole.outcome, FALSE, whole.ret)
                /\ okWrites' = IF whole.outcome = "ok" THEN okWrites \cup {<<target, raw>>}
                               ELSE okWrites
                /\ UNCHANGED <<files, wr>>
           ELSE /\ files' = EmlCreateTemp(files, tmp)
                /\ wr' = [pc |-> "created", target |-> target, tmp |-> tmp, raw |-> raw]
                /\ UNCHANGED <<lastOp, okWrites>>
    /\ UNCHANGED <<messages, folders, pipe, imap>>

EmlWrite ==
    /\ wr.pc = "created"
    /\ files' = EmlWriteTemp(files, wr.tmp, wr.raw)
    /\ wr' = [wr EXCEPT !.pc = "written"]
    /\ UNCHANGED <<messages, folders, lastOp, okWrites, pipe, imap>>

EmlRename ==
    /\ wr.pc = "written"
    /\ files' = EmlReplace(files, wr.tmp, wr.target)
    /\ wr' = [wr EXCEPT !.pc = "replaced"]
    /\ UNCHANGED <<messages, folders, lastOp, okWrites, pipe, imap>>

\* fsync of the directory, chmod, the finally block, return.
EmlFinish ==
    /\ wr.pc = "replaced"
    /\ files' = EmlCleanup(EmlChmod(files, wr.target), wr.tmp)
    /\ lastOp' = EmlDone(wr.target, wr.raw, "ok", TRUE,
                         EmlResult(wr.target, Sha256Hex(wr.raw), wr.raw.len))
    /\ okWrites' = okWrites \cup {<<wr.target, wr.raw>>}
    /\ wr' = Idle
    /\ UNCHANGED <<messages, folders, pipe, imap>>

\* write, fsync, replace or chmod raises OSError: the finally block unlinks the
\* temp file if it is still there, and the error propagates. The unlink may
\* itself raise OSError, which the finally block swallows: the temp file stays.
EmlIoError ==
    /\ wr.pc \in {"created", "written", "replaced"}
    /\ \E unlink \in {"done", "OSError"} :
         /\ unlink = "OSError" =>
                /\ wr.tmp \in DOMAIN files
                /\ Cardinality(TempFiles(files)) <= MaxTempLeft
         /\ files' = IF unlink = "done" THEN EmlCleanup(files, wr.tmp) ELSE files
         /\ lastOp' = EmlDone(wr.target, wr.raw, "OSError", wr.pc = "replaced", NULL)
                          @@ [unlink |-> IF wr.tmp \in DOMAIN files THEN unlink ELSE "none"]
    /\ wr' = Idle
    /\ UNCHANGED <<messages, folders, okWrites, pipe, imap>>

\* The process dies inside the call: nothing is cleaned up; a write under way
\* may have reached the disk in part.
EmlCrash ==
    /\ wr.pc \in {"created", "written", "replaced"}
    /\ wr.pc = "replaced" \/ Cardinality(TempFiles(files)) <= MaxTempLeft
    /\ \/ UNCHANGED files
       \/ /\ wr.pc = "created"
          /\ files' = EmlWriteTemp(files, wr.tmp, <<"partial", wr.raw>>)
    /\ lastOp' = EmlDone(wr.target, wr.raw, "crashed", wr.pc = "replaced", NULL)
    /\ wr' = Idle
    /\ UNCHANGED <<messages, folders, okWrites, pipe, imap>>

EmlNext ==
    \/ EmlBegin
    \/ EmlWrite
    \/ EmlRename
    \/ EmlFinish
    \/ EmlIoError
    \/ EmlCrash

SpecEml == EmlInit /\ [][EmlNext]_vars

(***************************************************************************)
(* Spec: the pipeline of pipeline/orchestrator.py over one IMAP account.   *)
(* The event loop runs one coroutine at a time, so the code between two    *)
(* awaits is one step; a step that makes several SQLite or file-system     *)
(* changes is cut at each of them, and while a _process_uid is inside such *)
(* a stretch (InChain) only it, or the death of the process, can move.     *)
(***************************************************************************)
MaxRuns == 2
BatchSize == 2
FetchConcurrency == 1
GmailWorkers == 1
QueueMaxsize == 1

\* retry_to_thread(..., attempts=5) in _gmail_worker
IngestAttempts == 5

\* The account: mailbox -> uid -> message. UID 3 is a second copy of UID 1.
Source == "INBOX" :> (1 :> MsgA @@ 2 :> MsgB @@ 3 :> MsgA)

Mailboxes == DOMAIN Source

UidKeys == UNION {{<<m, u>> : u \in DOMAIN Source[m]} : m \in Mailboxes}

\* run(dry_run, reset) with the filter.target_addresses setting of the run.
RunConfigs ==
    {[dry_run |-> FALSE, reset |-> FALSE, target_addresses |-> {"andrew@vectorfy.co"}],
     [dry_run |-> TRUE,  reset |-> FALSE, target_addresses |-> {"andrew@vectorfy.co"}],
     [dry_run |-> FALSE, reset |-> TRUE,  target_addresses |-> {"andrew@vectorfy.co"}],
     [dry_run |-> FALSE, reset |-> FALSE, target_addresses |-> {}],
     [dry_run |-> FALSE, reset |-> FALSE, target_addresses |-> {"someoneelse@example.com"}]}

RECURSIVE SortedSeq(_)
SortedSeq(S) == IF S = {} THEN <<>> ELSE <<Min(S)>> \o SortedSeq(S \ {Min(S)})

Take(q, n) == SubSeq(q, 1, IF Len(q) < n THEN Len(q) ELSE n)
Drop(q, n) == SubSeq(q, (IF Len(q) < n THEN Len(q) ELSE n) + 1, Len(q))

StartUidAlwaysOne(folder_row) == 1

\* start_uid = (folder_row.last_uid_seen + 1) if folder_row and
\* folder_row.last_uid_seen else 1
StartUid(folder_row) ==
    IF folder_row # NULL /\ Val(folder_row).last_uid_seen # NULL
                         /\ Val(Val(folder_row).last_uid_seen) # 0
    THEN Val(Val(folder_row).last_uid_seen) + 1
    ELSE 1

SearchUidsUnfiltered(mailbox, start_uid) == SortedSeq(DOMAIN Source[mailbox])

\* ImapFetcher.iter_uid_batches: UID SEARCH ALL, the filter, the sort.
SearchUids(mailbox, start_uid) ==
    SortedSeq({u \in DOMAIN Source[mailbox] : start_uid > 1 => u >= start_uid})

\* folder_to_system_labels, folder_to_custom_label with the default prefix,
\* and the id GmailLabelCache.ensure gives the custom label; sorted(set(...)).
LabelIds(mailbox) ==
    IF mailbox = "INBOX" THEN <<"INBOX", "Label_iCloud/INBOX">>
    ELSE <<"Label_iCloud/Sent Messages", "SENT">>

GmailWorkItem(id, path, label_ids) ==
    [message_row_id |-> id, eml_path |-> path, label_ids |-> label_ids]

NoTask == [pc |-> "none", id |-> 0]

TasksOf(m) == {k \in UidKeys : k[1] = m}

\* A _process_uid is between two of its ledger or file-system changes.
InChain == \E k \in UidKeys : uid_tasks[k].pc \in {"upserted", "written"}

Init ==
    /\ messages = <<>>
    /\ folders = <<>>
    /\ files = <<>>
    /\ lastOp = NoOp
    /\ wr = Idle
    /\ okWrites = {}
    /\ server \in [uidvalidity : UidValidities]
    /\ run = NoRun
    /\ mailbox_tasks = [m \in Mailboxes |-> [pc |-> "none"]]
    /\ uid_tasks = [k \in UidKeys |-> NoTask]
    /\ queue = <<>>
    /\ workers = [i \in 1..GmailWorkers |-> [pc |-> "none"]]
    /\ gmail = <<>>
    /\ runs = <<>>
    /\ ImapInit

WorkerStartAlways(dry_run) == "get"

\* if not dry_run: one _gmail_worker task for each of gmail_workers.
WorkerStart(dry_run) == IF dry_run THEN "none" ELSE "get"

\* run() up to the creation of the mailbox tasks: the reset, the connections,
\* the workers, the discovery. Nothing else runs before the first gather.
RunStart ==
    /\ run.phase = "off"
    /\ Len(runs) < MaxRuns
    /\ \E c \in RunConfigs :
        LET res == ResetSkippedAndFailed(messages, folders)
        IN /\ messages' = IF c.reset THEN res.messages ELSE messages
           /\ folders' = IF c.reset THEN res.folders ELSE folders
           /\ run' = [phase |-> "gather", dry_run |-> c.dry_run, reset |-> c.reset,
                      target_addresses |-> c.target_addresses,
                      sentinels |-> 0, ingest_calls |-> 0, raised |-> FALSE,
                      cancelled |-> FALSE, jobs |-> {}, logged_out |-> FALSE,
                      closed |-> FALSE]
           /\ workers' = [i \in 1..GmailWorkers |->
                            [pc |-> WorkerStart(c.dry_run)]]
    /\ mailbox_tasks' = [m \in Mailboxes |-> [pc |-> "new"]]
    /\ UNCHANGED <<imap, files, lastOp, wr, okWrites, server, uid_tasks, queue, gmail, runs>>

\* The tasks of a batch: current_folder = get_folder, update_folder_checkpoint
\* with the batch's uidvalidity and the stored last_uid_seen, one _process_uid
\* per UID; no batch left ends the mailbox task.
NextBatch(flds, m, uids) ==
    IF uids = <<>>
    THEN [folders |-> flds, task |-> [pc |-> "done"], started |-> {}]
    ELSE LET current_folder == GetFolder(flds, m)
             prior == IF current_folder = NULL THEN NULL
                      ELSE Val(current_folder).last_uid_seen
         IN [folders |-> UpdateFolderCheckpoint(flds, m, server.uidvalidity, prior),
             task |-> [pc |-> "gather", batch |-> Take(uids, BatchSize),
                       rest |-> Drop(uids, BatchSize),
                       uidvalidity |-> server.uidvalidity, prior |-> prior],
             started |-> {<<m, u>> : u \in Range(Take(uids, BatchSize))}]

\* _mailbox_worker and _process_mailbox up to the first batch's tasks.
MailboxStart(m) ==
    /\ run.phase # "off"
    /\ mailbox_tasks[m].pc = "new"
    /\ ~InChain
    /\ LET folder_row == GetFolder(folders, m)
           first == UpdateFolderCheckpoint(folders, m,
                        IF folder_row = NULL THEN NULL ELSE Val(folder_row).uidvalidity,
                        IF folder_row = NULL THEN NULL ELSE Val(folder_row).last_uid_seen)
           nb == NextBatch(first, m, SearchUids(m, StartUid(folder_row)))
       IN /\ folders' = nb.folders
          /\ mailbox_tasks' = [mailbox_tasks EXCEPT ![m] = nb.task]
          /\ uid_tasks' = [k \in UidKeys |->
                             IF k \in nb.started THEN [pc |-> "waiting", id |-> 0]
                             ELSE uid_tasks[k]]
    /\ UNCHANGED <<imap, messages, files, lastOp, wr, okWrites, server, run, queue, workers,
                   gmail, runs>>

SemAlwaysFree(m) == TRUE

\* sem = asyncio.Semaphore(imap_fetch_concurrency), one for each
\* _process_mailbox: a permit is free.
SemFree(m) ==
    Cardinality({j \in TasksOf(m) : uid_tasks[j].pc = "fetching"}) < FetchConcurrency

\* _process_uid enters `async with sem` and starts the fetch.
UidAcquire(k) ==
    /\ run.phase # "off"
    /\ uid_tasks[k].pc = "waiting"
    /\ ~InChain
    /\ SemFree(k[1])
    /\ uid_tasks' = [uid_tasks EXCEPT ![k].pc = "fetching"]
    /\ UNCHANGED <<imap, messages, folders, files, lastOp, wr, okWrites, server, run,
                   mailbox_tasks, queue, workers, gmail, runs>>

\* retry_async(_fetch, attempts=5) raises on its last attempt: the error is
\* logged and _process_uid returns.
UidFetchFailed(k) ==
    /\ run.phase # "off"
    /\ uid_tasks[k].pc = "fetching"
    /\ ~InChain
    /\ uid_tasks' = [uid_tasks EXCEPT ![k].pc = "done"]
    /\ UNCHANGED <<imap, messages, folders, files, lastOp, wr, okWrites, server, run,
                   mailbox_tasks, queue, workers, gmail, runs>>

\* The fetch returns: the semaphore is released, compute_fingerprint,
\* upsert_message_discovered.
UidFetched(k) ==
    /\ run.phase # "off"
    /\ uid_tasks[k].pc = "fetching"
    /\ ~InChain
    /\ LET raw == Source[k[1]][k[2]]
           fp == ComputeFingerprint(raw, FingerprintBodyBytes)
           res == UpsertMessageDiscovered(messages, k[1], k[2],
                      mailbox_tasks[k[1]].uidvalidity, fp.message_id_norm,
                      fp.fingerprint, raw.len)
       IN /\ messages' = res.messages
          /\ uid_tasks' = [uid_tasks EXCEPT ![k] = [pc |-> "upserted", id |-> res.id]]
    /\ UNCHANGED <<imap, folders, files, lastOp, wr, okWrites, server, run, mailbox_tasks,
                   queue, workers, gmail, runs>>

\* if msg_row.status == MessageStatus.imported: return. msg_row is the row
\* upsert_message_discovered returned, which nothing has changed since.
UidImported(k) ==
    /\ uid_tasks[k].pc = "upserted"
    /\ messages[uid_tasks[k].id].status = "imported"
    /\ uid_tasks' = [uid_tasks EXCEPT ![k].pc = "done"]
    /\ UNCHANGED <<imap, messages, folders, files, lastOp, wr, okWrites, server, run,
                   mailbox_tasks, queue, workers, gmail, runs>>

\* if not addr_filter.matches(fp.headers): mark_skipped_filtered, return.
UidFiltered(k) ==
    /\ uid_tasks[k].pc = "upserted"
    /\ messages[uid_tasks[k].id].status # "imported"
    /\ ~AddressFilterMatches(run.target_addresses, Source[k[1]][k[2]])
    /\ messages' = MarkSkippedFiltered(messages, uid_tasks[k].id, "Filtered out")
    /\ uid_tasks' = [uid_tasks EXCEPT ![k].pc = "done"]
    /\ UNCHANGED <<imap, folders, files, lastOp, wr, okWrites, server, run, mailbox_tasks,
                   queue, workers, gmail, runs>>

\* existing = find_existing_imported(...); existing is not None and
\* existing != msg_row.id
IsDuplicate(k) ==
    LET fp == ComputeFingerprint(Source[k[1]][k[2]], FingerprintBodyBytes)
        existing == FindExistingImported(messages, fp.message_id_norm, fp.fingerprint)
    IN existing # NULL /\ Val(existing) # uid_tasks[k].id

UidDuplicate(k) ==
    /\ uid_tasks[k].pc = "upserted"
    /\ messages[uid_tasks[k].id].status # "imported"
    /\ AddressFilterMatches(run.target_addresses, Source[k[1]][k[2]])
    /\ IsDuplicate(k)
    /\ messages' = MarkSkippedDuplicate(messages, uid_tasks[k].id, "Duplicate")
    /\ uid_tasks' = [uid_tasks EXCEPT ![k].pc = "done"]
    /\ UNCHANGED <<imap, folders, files, lastOp, wr, okWrites, server, run, mailbox_tasks,
                   queue, workers, gmail, runs>>

\* written = eml_store.write_immutable(...): it returns, or it raises (the
\* ValueError of a differing file, an OSError of the file system, which
\* leaves no file behind) and _process_uid raises with it.
UidWrite(k) ==
    /\ uid_tasks[k].pc = "upserted"
    /\ messages[uid_tasks[k].id].status # "imported"
    /\ AddressFilterMatches(run.target_addresses, Source[k[1]][k[2]])
    /\ ~IsDuplicate(k)
    /\ LET w == WriteImmutable(files, k[1], mailbox_tasks[k[1]].uidvalidity, k[2],
                               Source[k[1]][k[2]])
       IN \/ /\ w.outcome = "ok"
             /\ files' = w.files
             /\ uid_tasks' = [uid_tasks EXCEPT ![k] =
                                [pc |-> "written", id |-> @.id, written |-> w.ret]]
          \/ /\ w.outcome # "ok" \/ w.wrote
             /\ files' = files
             /\ uid_tasks' = [uid_tasks EXCEPT ![k] = [pc |-> "raised", id |-> @.id]]
    /\ UNCHANGED <<imap, messages, folders, lastOp, wr, okWrites, server, run, mailbox_tasks,
                   queue, workers, gmail, runs>>

\* mark_downloaded; a dry run returns here; otherwise the labels and
\* await queue.put(GmailWorkItem(...)), which waits while the queue is full.
UidDownloaded(k) ==
    /\ uid_tasks[k].pc = "written"
    /\ LET t == uid_tasks[k]
           item == GmailWorkItem(t.id, t.written.path, LabelIds(k[1]))
       IN /\ messages' = MarkDownloaded(messages, t.id, t.written.path, t.written.sha256)
          /\ IF run.dry_run
             THEN /\ uid_tasks' = [uid_tasks EXCEPT ![k] = [pc |-> "done", id |-> t.id]]
                  /\ UNCHANGED <<imap, queue, run>>
             ELSE IF Len(queue) < QueueMaxsize
             THEN /\ uid_tasks' = [uid_tasks EXCEPT ![k] = [pc |-> "done", id |-> t.id]]
                  /\ queue' = Append(queue, Some(item))
                  /\ run' = [run EXCEPT !.jobs = @ \cup {t.id}]
             ELSE /\ uid_tasks' = [uid_tasks EXCEPT ![k] =
                                     [pc |-> "putting", id |-> t.id, item |-> item]]
                  /\ UNCHANGED <<imap, queue, run>>
    /\ UNCHANGED <<imap, folders, files, lastOp, wr, okWrites, server, mailbox_tasks,
                   workers, gmail, runs>>

\* The waiting queue.put goes through.
UidPut(k) ==
    /\ run.phase # "off"
    /\ uid_tasks[k].pc = "putting"
    /\ ~InChain
    /\ Len(queue) < QueueMaxsize
    /\ queue' = Append(queue, Some(uid_tasks[k].item))
    /\ run' = [run EXCEPT !.jobs = @ \cup {uid_tasks[k].id}]
    /\ uid_tasks' = [uid_tasks EXCEPT ![k] = [pc |-> "done", id |-> @.id]]
    /\ UNCHANGED <<imap, messages, folders, files, lastOp, wr, okWrites, server,
                   mailbox_tasks, workers, gmail, runs>>

\* await asyncio.gather(*tasks) returns: every _process_uid of the batch has.
BatchTasksAnyReturned(m) ==
    \E u \in Range(mailbox_tasks[m].batch) : uid_tasks[<<m, u>>].pc = "done"

BatchTasksReturned(m) ==
    \A u \in Range(mailbox_tasks[m].batch) : uid_tasks[<<m, u>>].pc = "done"

\* The end of a batch: update_folder_checkpoint(last_uid_seen=max(batch.uids)),
\* then the next batch's tasks, or the end of _process_mailbox.
BatchDone(m) ==
    /\ run.phase # "off"
    /\ mailbox_tasks[m].pc = "gather"
    /\ ~InChain
    /\ BatchTasksReturned(m)
    /\ LET t == mailbox_tasks[m]
           max_uid == Max(Range(t.batch))
           nb == NextBatch(UpdateFolderCheckpoint(folders, m, t.uidvalidity, Some(max_uid)),
                           m, t.rest)
       IN /\ folders' = nb.folders
          /\ mailbox_tasks' = [mailbox_tasks EXCEPT ![m] = nb.task]
          /\ uid_tasks' = [k \in UidKeys |->
                             IF k \in nb.started THEN [pc |-> "waiting", id |-> 0]
                             ELSE IF k \in TasksOf(m) THEN NoTask
                             ELSE uid_tasks[k]]
    /\ UNCHANGED <<imap, messages, files, lastOp, wr, okWrites, server, run, queue, workers,
                   gmail, runs>>

\* gather re-raises the exception of a _process_uid: _process_mailbox ends
\* with it; the other tasks of the batch are not cancelled.
MailboxRaise(m) ==
    /\ run.phase # "off"
    /\ mailbox_tasks[m].pc = "gather"
    /\ ~InChain
    /\ \E u \in Range(mailbox_tasks[m].batch) : uid_tasks[<<m, u>>].pc = "raised"
    /\ mailbox_tasks' = [mailbox_tasks EXCEPT ![m].pc = "raised"]
    /\ UNCHANGED <<imap, messages, folders, files, lastOp, wr, okWrites, server, run,
                   uid_tasks, queue, workers, gmail, runs>>

\* await asyncio.gather(*mailbox_tasks) returns or raises; run() enters its
\* finally block with one sentinel to put for each worker.
GatherDone ==
    /\ run.phase = "gather"
    /\ ~InChain
    /\ \/ \A m \in Mailboxes : mailbox_tasks[m].pc = "done"
       \/ \E m \in Mailboxes : mailbox_tasks[m].pc = "raised"
    /\ run' = [run EXCEPT !.phase = "finally",
                          !.raised = \E m \in Mailboxes : mailbox_tasks[m].pc = "raised",
                          !.sentinels = IF run.dry_run THEN 0 ELSE GmailWorkers]
    /\ UNCHANGED <<imap, messages, folders, files, lastOp, wr, okWrites, server,
                   mailbox_tasks, uid_tasks, queue, workers, gmail, runs>>

\* for _ in workers: await queue.put(None)
PutSentinel ==
    /\ run.phase = "finally"
    /\ run.sentinels > 0
    /\ ~InChain
    /\ Len(queue) < QueueMaxsize
    /\ queue' = Append(queue, NULL)
    /\ run' = [run EXCEPT !.sentinels = @ - 1]
    /\ UNCHANGED <<imap, messages, folders, files, lastOp, wr, okWrites, server,
                   mailbox_tasks, uid_tasks, workers, gmail, runs>>

\* item = await queue.get(): the sentinel ends the worker; a job starts
\* retry_to_thread(_ingest_call(...), attempts=5).
WorkerGet(i) ==
    /\ workers[i].pc = "get"
    /\ ~InChain
    /\ queue # <<>>
    /\ queue' = Tail(queue)
    /\ IF Head(queue) = NULL
       THEN /\ workers' = [workers EXCEPT ![i] = [pc |-> "exited"]]
            /\ run' = run
       ELSE /\ workers' = [workers EXCEPT ![i] = [pc |-> "ingest", item |-> Val(Head(queue)),
                                                 attempt |-> 1]]
            /\ run' = [run EXCEPT !.ingest_calls = @ + 1]
    /\ UNCHANGED <<imap, messages, folders, files, lastOp, wr, okWrites, server,
                   mailbox_tasks, uid_tasks, gmail, runs>>

\* ingester.ingest_eml succeeds, in its thread: the message is in Gmail.
WorkerIngested(i) ==
    /\ workers[i].pc = "ingest"
    /\ gmail' = Append(gmail, workers[i].item.eml_path)
    /\ workers' = [workers EXCEPT ![i] =
                     [pc |-> "ingested", item |-> @.item,
                      gmail_message_id |-> <<"msg", Len(gmail) + 1>>]]
    /\ UNCHANGED <<imap, messages, folders, files, lastOp, wr, okWrites, server, run,
                   mailbox_tasks, uid_tasks, queue, runs>>

\* mark_imported with the result of the ingest; task_done.
WorkerMarkImported(i) ==
    /\ workers[i].pc = "ingested"
    /\ ~InChain
    /\ messages' = MarkImported(messages, workers[i].item.message_row_id,
                                workers[i].gmail_message_id, workers[i].item.label_ids)
    /\ workers' = [workers EXCEPT ![i] = [pc |-> "get"]]
    /\ UNCHANGED <<imap, folders, files, lastOp, wr, okWrites, server, run, mailbox_tasks,
                   uid_tasks, queue, gmail, runs>>

\* An attempt of the ingest raises and is not the last: retry_async sleeps
\* and calls again.
WorkerRetry(i) ==
    /\ workers[i].pc = "ingest"
    /\ workers[i].attempt < IngestAttempts
    /\ workers' = [workers EXCEPT ![i].attempt = @ + 1]
    /\ UNCHANGED <<imap, messages, folders, files, lastOp, wr, okWrites, server, run,
                   mailbox_tasks, uid_tasks, queue, gmail, runs>>

\* The last attempt of the ingest raises: mark_failed; task_done.
WorkerMarkFailed(i) ==
    /\ workers[i].pc = "ingest"
    /\ workers[i].attempt >= IngestAttempts
    /\ ~InChain
    /\ messages' = MarkFailed(messages, workers[i].item.message_row_id, "gmail_worker")
    /\ workers' = [workers EXCEPT ![i] = [pc |-> "get"]]
    /\ UNCHANGED <<imap, folders, files, lastOp, wr, okWrites, server, run, mailbox_tasks,
                   uid_tasks, queue, gmail, runs>>

\* What is left of a run once its process is gone: the ledger, the evidence
\* files, the Gmail account.
Ended(summary) ==
    /\ runs' = Append(runs, summary)
    /\ run' = NoRun
    /\ mailbox_tasks' = [m \in Mailboxes |-> [pc |-> "none"]]
    /\ uid_tasks' = [k \in UidKeys |-> NoTask]
    /\ queue' = <<>>
    /\ workers' = [i \in 1..GmailWorkers |-> [pc |-> "none"]]
    /\ UNCHANGED <<imap, messages, folders, files, lastOp, wr, okWrites, server, gmail>>

WorkersDrainedEarly ==
    /\ run.phase = "finally"
    /\ run.sentinels = 0
    /\ ~InChain

\* await asyncio.gather(*workers, return_exceptions=True) has returned: every
\* sentinel is put and every worker has exited.
WorkersDrained ==
    /\ run.phase = "finally"
    /\ run.sentinels = 0
    /\ ~InChain
    /\ \A i \in 1..GmailWorkers : workers[i].pc \in {"none", "exited"}

\* The finally block ends with an exception pending: run() raises it, and the
\* tasks still alive die with the event loop.
RunRaise ==
    /\ WorkersDrained
    /\ run.raised
    /\ Ended([completed |-> FALSE])

\* await pool.logout(): it returns, or a session's logout raises and run()
\* raises with it.
PoolLogout ==
    /\ WorkersDrained
    /\ ~run.raised
    /\ \/ /\ run' = [run EXCEPT !.phase = "counts", !.logged_out = TRUE]
          /\ UNCHANGED <<imap, messages, folders, files, lastOp, wr, okWrites, server,
                         mailbox_tasks, uid_tasks, queue, workers, gmail, runs>>
       \/ Ended([completed |-> FALSE])

\* counts_by_status is printed; db.close().
CloseLedger ==
    /\ run.phase = "counts"
    /\ run' = [run EXCEPT !.phase = "closed", !.closed = TRUE]
    /\ UNCHANGED <<imap, messages, folders, files, lastOp, wr, okWrites, server,
                   mailbox_tasks, uid_tasks, queue, workers, gmail, runs>>

\* run() returns.
RunEnd ==
    /\ run.phase = "closed"
    /\ Ended([completed |-> TRUE, dry_run |-> run.dry_run, reset |-> run.reset,
              ingest_calls |-> run.ingest_calls,
              counts |-> CountsByStatus(messages)])

\* The top-level task is cancelled (asyncio.run cancels it on SIGINT) while it
\* awaits the mailbox tasks: gather cancels them, and each the _process_uid
\* tasks it awaits; run() enters its finally block with CancelledError pending.
Cancel ==
    /\ run.phase = "gather"
    /\ ~InChain
    /\ mailbox_tasks' = [m \in Mailboxes |->
                           IF mailbox_tasks[m].pc \in {"new", "gather"}
                           THEN [mailbox_tasks[m] EXCEPT !.pc = "cancelled"]
                           ELSE mailbox_tasks[m]]
    /\ uid_tasks' = [k \in UidKeys |->
                       IF uid_tasks[k].pc \in {"waiting", "fetching", "putting"}
                       THEN [pc |-> "cancelled", id |-> uid_tasks[k].id]
                       ELSE uid_tasks[k]]
    /\ run' = [run EXCEPT !.phase = "finally", !.raised = TRUE, !.cancelled = TRUE,
                          !.sentinels = IF run.dry_run THEN 0 ELSE GmailWorkers]
    /\ UNCHANGED <<imap, messages, folders, files, lastOp, wr, okWrites, server, queue,
                   workers, gmail, runs>>

\* The process is killed.
Crash ==
    /\ run.phase # "off"
    /\ Ended([completed |-> FALSE])

Next ==
    \/ RunStart
    \/ \E m \in Mailboxes : MailboxStart(m)
    \/ \E k \in UidKeys : UidAcquire(k)
    \/ \E k \in UidKeys : UidFetchFailed(k)
    \/ \E k \in UidKeys : UidFetched(k)
    \/ \E k \in UidKeys : UidImported(k)
    \/ \E k \in UidKeys : UidFiltered(k)
    \/ \E k \in UidKeys : UidDuplicate(k)
    \/ \E k \in UidKeys : UidWrite(k)
    \/ \E k \in UidKeys : UidDownloaded(k)
    \/ \E k \in UidKeys : UidPut(k)
    \/ \E m \in Mailboxes : BatchDone(m)
    \/ \E m \in Mailboxes : MailboxRaise(m)
    \/ GatherDone
    \/ PutSentinel
    \/ \E i \in 1..GmailWorkers : WorkerGet(i)
    \/ \E i \in 1..GmailWorkers : WorkerIngested(i)
    \/ \E i \in 1..GmailWorkers : WorkerMarkImported(i)
    \/ \E i \in 1..GmailWorkers : WorkerRetry(i)
    \/ \E i \in 1..GmailWorkers : WorkerMarkFailed(i)
    \/ RunRaise
    \/ PoolLogout
    \/ CloseLedger
    \/ RunEnd
    \/ Cancel
    \/ Crash

Spec == Init /\ [][Next]_vars

(***************************************************************************)
(* Claims about the ledger, checked under SpecLedger.                      *)
(***************************************************************************)
RowKey(r) == <<r.folder, r.uid, r.uidvalidity>>

IsReset == lastOp'.op = "reset_skipped_and_failed"

\* C6: reset_skipped_and_failed is one step that sets every folder's
\* last_uid_seen to 0 (and nothing else of the folder), turns exactly the rows
\* in skipped_filtered, failed or skipped_duplicate to discovered, leaves every
\* other row as it was, and returns the number of rows whose status changed.
C6_ResetSemantics ==
    [][IsReset =>
        /\ DOMAIN folders' = DOMAIN folders
        /\ \A n \in DOMAIN folders :
              folders'[n] = [folders[n] EXCEPT !.last_uid_seen = Some(0)]
        /\ DOMAIN messages' = DOMAIN messages
        /\ \A i \in DOMAIN messages :
              IF messages[i].status \in {"skipped_filtered", "failed", "skipped_duplicate"}
              THEN messages'[i] = [messages[i] EXCEPT !.status = "discovered"]
              ELSE messages'[i] = messages[i]
        /\ lastOp'.ret =
              Cardinality({i \in DOMAIN messages : messages'[i].status # messages[i].status})
      ]_vars

\* A reset that changed one row, beside an imported row it left alone, with
\* the folder checkpoint rewound.
C6_Witness ==
    /\ lastOp.op = "reset_skipped_and_failed"
    /\ lastOp.ret = 1
    /\ \E i \in DOMAIN messages : messages[i].status = "imported"
    /\ \E n \in DOMAIN folders : folders[n].last_uid_seen = Some(0)

\* C7: the ledger holds at most one row per key (folder, uid, uidvalidity),
\* also for a key whose uidvalidity is absent.
C7_UniqueKey ==
    \A i, j \in DOMAIN messages : i # j => RowKey(messages[i]) # RowKey(messages[j])

IsUpsertOfExistingKey ==
    /\ lastOp'.op = "upsert_message_discovered"
    /\ \E i \in DOMAIN messages :
          KeyIs(messages[i], lastOp'.folder, lastOp'.uid, lastOp'.uidvalidity)

\* C9: upsert_message_discovered on a key that has a row sets that row's status
\* to discovered exactly when it was skipped_filtered or failed, keeps
\* eml_path, eml_sha256, the sink id and attempts, and returns the row stored
\* for the key.
C9_UpsertOnExistingKey ==
    [][IsUpsertOfExistingKey =>
        /\ \A i \in DOMAIN messages :
              KeyIs(messages[i], lastOp'.folder, lastOp'.uid, lastOp'.uidvalidity) =>
                /\ messages'[i].status =
                      IF messages[i].status \in {"skipped_filtered", "failed"}
                      THEN "discovered" ELSE messages[i].status
                /\ messages'[i].eml_path = messages[i].eml_path
                /\ messages'[i].eml_sha256 = messages[i].eml_sha256
                /\ messages'[i].gmail_message_id = messages[i].gmail_message_id
                /\ messages'[i].attempts = messages[i].attempts
        /\ KeyIs(messages'[lastOp'.ret], lastOp'.folder, lastOp'.uid, lastOp'.uidvalidity)
      ]_vars

(***************************************************************************)
(* Claims about the evidence store, checked under SpecEml.                 *)
(***************************************************************************)
\* A step on which a write_immutable call ends (returns, raises or dies).
EmlCallEnds ==
    /\ wr'.pc = "idle"
    /\ lastOp'.op = "write_immutable"
    /\ <<lastOp', wr'>> # <<lastOp, wr>>

\* C10: a write_immutable call repeated with the same key and the same bytes
\* after one that returned also returns, with the same path and sha256, and
\* leaves the file as it was; a call that wrote the file leaves it read-only
\* (mode 0o444) when it returns.
C10_EvidenceIdempotence ==
    [][EmlCallEnds =>
        /\ lastOp'.outcome = "ok" =>
              /\ lastOp'.ret.path = lastOp'.path
              /\ lastOp'.ret.sha256 = Sha256Hex(lastOp'.raw)
              /\ files'[lastOp'.path].bytes = lastOp'.raw
        /\ (lastOp'.outcome = "ok" /\ lastOp'.wrote) =>
              files'[lastOp'.path].mode = "0o444"
        /\ <<lastOp'.path, lastOp'.raw>> \in okWrites =>
              /\ lastOp'.outcome = "ok"
              /\ files' = files
      ]_vars

\* The second of two calls has returned: it found the file the first wrote,
\* read-only.
C10_Witness ==
    /\ lastOp.op = "write_immutable"
    /\ lastOp.outcome = "ok"
    /\ ~lastOp.wrote
    /\ files[lastOp.path].mode = "0o444"
    /\ lastOp.ret.sha256 = Sha256Hex(lastOp.raw)

(***************************************************************************)
(* Claims about the pipeline, checked under Spec.                          *)
(***************************************************************************)
\* A run that returned, was not a dry run and did not reset.
PlainRun(r) == r.completed /\ ~r.dry_run /\ ~r.reset

\* C1: of two consecutive runs that both ran to completion, non-dry and
\* without reset, over the unchanged account, the second makes no sink ingest
\* call and ends with the same number of rows per status as the first.
C1_RestartSafety ==
    \A i \in 1..Len(runs) - 1 :
        (PlainRun(runs[i]) /\ PlainRun(runs[i + 1])) =>
            /\ runs[i + 1].ingest_calls = 0
            /\ runs[i + 1].counts = runs[i].counts

C1_Witness ==
    /\ Len(runs) = 2
    /\ PlainRun(runs[1]) /\ PlainRun(runs[2])
    /\ runs[1].ingest_calls > 0
    /\ runs[1].counts["imported"] > 0

\* The step hands the queue a job for row id: by a put that goes through, or
\* by a put that starts to wait.
JobPut(id) ==
    \/ /\ Len(queue') = Len(queue) + 1
       /\ queue'[Len(queue')] # NULL
       /\ Val(queue'[Len(queue')]).message_row_id = id
    \/ \E k \in UidKeys : /\ uid_tasks'[k].pc = "putting"
                          /\ uid_tasks[k].pc # "putting"
                          /\ uid_tasks'[k].item.message_row_id = id

\* C2: a row that is imported stays imported in every later step of every
\* run, and no step puts a sink job for it on the queue: not the upsert that
\* meets it again, not a reset, not the re-run of an interrupted run.
C2_ImportedIsFinal ==
    [][\A id \in DOMAIN messages :
          messages[id].status = "imported" =>
              /\ messages'[id].status = "imported"
              /\ ~JobPut(id)
      ]_vars

\* An imported row has just been met again by upsert_message_discovered.
C2_Witness ==
    \E k \in UidKeys : /\ uid_tasks[k].pc = "upserted"
                       /\ messages[uid_tasks[k].id].status = "imported"
                       /\ Len(runs) > 0

LastUidSeen(flds, m) == IF m \in DOMAIN flds THEN flds[m].last_uid_seen ELSE NULL

\* The step is the end of a batch of mailbox m that advances its checkpoint.
Advanced(m) ==
    /\ run.phase # "off"
    /\ mailbox_tasks[m].pc = "gather"
    /\ LastUidSeen(folders', m) # LastUidSeen(folders, m)

\* C3: when the end of a batch advances last_uid_seen, every UID of the batch
\* has a ledger row whose status is imported, skipped_filtered,
\* skipped_duplicate, failed or downloaded, whatever its _process_uid did.
C3_CheckpointCoversBatch ==
    [][\A m \in Mailboxes :
          Advanced(m) =>
              \A u \in Range(mailbox_tasks[m].batch) :
                  \E id \in DOMAIN messages' :
                      /\ RowKey(messages'[id]) = <<m, u, mailbox_tasks[m].uidvalidity>>
                      /\ messages'[id].status # "discovered"
      ]_vars

\* The step is the end of a batch of mailbox m.
BatchEnds(m) ==
    /\ mailbox_tasks[m].pc = "gather"
    /\ run'.phase # "off"
    /\ \/ mailbox_tasks'[m].pc = "done"
       \/ mailbox_tasks'[m].pc = "gather" /\ mailbox_tasks'[m].batch # mailbox_tasks[m].batch

\* C4: during a run last_uid_seen of a mailbox changes only in a step before
\* which every _process_uid of the current batch has returned and after which
\* none of the next batch has started; the end of a batch leaves last_uid_seen
\* at or above the batch's highest UID; while a _process_uid of the batch has
\* raised, last_uid_seen is what it was when the batch started.
C4_CheckpointAtBatchBoundary ==
    [][\A m \in Mailboxes :
          /\ (run.phase # "off" /\ LastUidSeen(folders', m) # LastUidSeen(folders, m)) =>
                /\ mailbox_tasks[m].pc = "gather"
                /\ \A k \in TasksOf(m) : uid_tasks[k].pc \in {"none", "done"}
                /\ \A k \in TasksOf(m) : uid_tasks'[k].pc \in {"none", "waiting"}
          /\ BatchEnds(m) =>
                /\ LastUidSeen(folders', m) # NULL
                /\ Val(LastUidSeen(folders', m)) >= Max(Range(mailbox_tasks[m].batch))
          /\ (\E k \in TasksOf(m) : uid_tasks'[k].pc = "raised") =>
                LastUidSeen(folders', m) = mailbox_tasks'[m].prior
      ]_vars

\* A _process_uid of the second batch raised and its _process_mailbox with it.
C4_Witness ==
    \E m \in Mailboxes : /\ mailbox_tasks[m].pc = "raised"
                         /\ mailbox_tasks[m].prior # NULL
                         /\ Val(mailbox_tasks[m].prior) > 0

\* The step is reset_skipped_and_failed, at the start of a run with reset.
ResetStep == run.phase = "off" /\ run'.phase # "off" /\ run'.reset

\* The changes of status the step makes: <<row, before, after>>.
StatusChanges ==
    {<<messages[id], messages[id].status, messages'[id].status>> :
        id \in {i \in DOMAIN messages : messages'[i].status # messages[i].status}}

C8_EvidenceFields ==
    \A id \in DOMAIN messages :
        /\ messages[id].status \in {"downloaded", "imported"} =>
              messages[id].eml_path # NULL /\ messages[id].eml_sha256 # NULL
        /\ messages[id].status = "imported" => messages[id].gmail_message_id # NULL

C8_Witness ==
    /\ \E id \in DOMAIN messages : messages[id].status = "imported"
    /\ \E id \in DOMAIN messages : messages[id].status = "downloaded"


\* C11: a write_immutable call that finds the target file with bytes of another
\* sha256 raises the mismatch error (ValueError) in that same step, leaves
\* every file as it was and makes no temp file; no call makes a temp file for
\* a target that exists.
C11_MismatchDetected ==
    [][/\ (EmlCallEnds /\ wr.pc = "idle" /\ lastOp'.path \in DOMAIN files
                       /\ Sha256Hex(files[lastOp'.path].bytes) # Sha256Hex(lastOp'.raw)) =>
              /\ lastOp'.outcome = "ValueError"
              /\ files' = files
       /\ (wr.pc = "idle" /\ wr'.pc = "created") => wr'.target \notin DOMAIN files
       /\ (wr.pc = "idle" /\ wr'.pc = "idle") => files' = files
      ]_vars

\* A call has raised the mismatch error over a file that an earlier call wrote
\* and that still holds the earlier bytes, read-only.
C11_Witness ==
    /\ lastOp.op = "write_immutable"
    /\ lastOp.outcome = "ValueError"
    /\ lastOp.path \in DOMAIN files
    /\ files[lastOp.path].bytes # lastOp.raw
    /\ files[lastOp.path].mode = "0o444"
    /\ TempFiles(files) = {}

\* C12: the failure of one message does not halt the run: run() enters its
\* shutdown only when every mailbox task has processed its mailbox to the end,
\* never because a _process_uid raised.
C12_FailureDoesNotHaltRun ==
    run.phase = "finally" =>
        /\ ~run.raised
        /\ \A m \in Mailboxes : mailbox_tasks[m].pc = "done"

\* The step is the end of a run whose workers have all exited.
RunEnds ==
    /\ run.phase = "finally"
    /\ run.sentinels = 0
    /\ \A i \in 1..GmailWorkers : workers[i].pc \in {"none", "exited"}
    /\ run'.phase = "off"

\* C13: the row of a message whose write_immutable raised has status failed
\* when the run ends.
C13_WriteErrorMarksFailed ==
    [][RunEnds =>
          \A k \in UidKeys :
              uid_tasks[k].pc = "raised" => messages'[uid_tasks[k].id].status = "failed"
      ]_vars

\* Worker i holds a dequeued job.
HoldsJob(w) == w.pc \in {"ingest", "ingested"}

NumSentinelsQueued == Cardinality({n \in 1..Len(queue) : queue[n] = NULL})

NumExited == Cardinality({i \in 1..GmailWorkers : workers[i].pc = "exited"})

ShutdownState ==
    (run.phase # "off" /\ ~run.raised) =>
        /\ (NumSentinelsQueued + NumExited > 0) =>
               \A m \in Mailboxes : mailbox_tasks[m].pc = "done"
        /\ IF run.phase = "gather" \/ run.dry_run
           THEN NumSentinelsQueued + NumExited = 0
           ELSE NumSentinelsQueued + NumExited + run.sentinels = GmailWorkers
        /\ run.logged_out =>
               /\ queue = <<>>
               /\ \A i \in 1..GmailWorkers : workers[i].pc \in {"none", "exited"}
        /\ run.closed =>
               /\ run.logged_out
               /\ \A id \in run.jobs : messages[id].status \in {"imported", "failed"}

C16_CancelledShutdown ==
    [][(run.phase # "off" /\ run.cancelled) =>
          /\ \A k \in UidKeys :
               uid_tasks'[k].pc \in {"fetching", "upserted", "written", "putting"} =>
                   uid_tasks'[k] = uid_tasks[k]
          /\ (WorkersDrained /\ run'.phase = "off") =>
                 /\ run.dry_run \/ NumExited = GmailWorkers
                 /\ run.logged_out
                 /\ run.closed
      ]_vars

\* ---- C20 ----
NumFetching(m) == Cardinality({k \in TasksOf(m) : uid_tasks[k].pc = "fetching"})

NumIngesting == Cardinality({i \in 1..GmailWorkers : workers[i].pc = "ingest"})

\* C20: at every instant of a run, the fetch sections in progress for one
\* mailbox are at most imap_fetch_concurrency, the items held by the ingest
\* queue are at most queue_maxsize, and the ingest calls in flight are at
\* most gmail_workers.
C20_BoundedConcurrency ==
    /\ \A m \in Mailboxes : NumFetching(m) <= FetchConcurrency
    /\ Len(queue) <= QueueMaxsize
    /\ NumIngesting <= GmailWorkers

C20_Witness ==
    /\ \E m \in Mailboxes : NumFetching(m) = FetchConcurrency
    /\ Len(queue) = QueueMaxsize
    /\ NumIngesting = GmailWorkers

\* ---------------------------------------------------------------------------
\* SpecImap: the IMAP sessions and their pool (imap/client.py), called by any
\* number of tasks in any order. The ledger, the evidence directory and the
\* pipeline stay in their first state.
\* ---------------------------------------------------------------------------

\* The methods of ImapClient a task calls on a session it was given.
Commands == {"login", "list_mailboxes", "select", "uid_search", "uid_fetch_rfc822"}

rest == <<messages, folders, files, lastOp, wr, okWrites, pipe>>

LockAlwaysFree(client) == TRUE

\* `async with self._lock` does not have to wait.
LockFree(client) == ~client.locked

ReleaseClientDropped(q, i) == q

\* release_client: await self._queue.put(client), on a queue without bound.
ReleaseClient(q, i) == Append(q, i)

\* One turn of the loop of ImapPool.connect: a new client connects, logs in, is
\* appended to _clients and put on _queue; after the last turn _connected is
\* set. Or connect or login raises, and ImapPool.connect with it.
PoolConnect ==
    /\ ~pool.connected
    /\ ~pool.failed
    /\ teardown.pc = "idle"
    /\ Len(pool.clients) < PoolSize
    /\ LET i == Len(pool.clients) + 1
       IN \/ /\ clients' = [clients EXCEPT ![i].imap = "authenticated"]
             /\ pool' = [pool EXCEPT !.clients = Append(@, i),
                                     !.queue = Append(@, i),
                                     !.connected = (i = PoolSize)]
          \/ /\ clients' = [clients EXCEPT ![i].imap = "connected"]
             /\ pool' = [pool EXCEPT !.failed = TRUE]
    /\ UNCHANGED <<acquirers, callers, teardown, rest>>

\* acquire: client = await self.get_client(). The queue has an idle session
\* and get returns it at once, or the task waits.
AcquireBegin(a) ==
    /\ pool.connected
    /\ acquirers[a].pc = "idle"
    /\ IF pool.queue # <<>>
       THEN /\ acquirers' = [acquirers EXCEPT ![a] =
                               [pc |-> "holding", client |-> Head(pool.queue)]]
            /\ pool' = [pool EXCEPT !.queue = Tail(@)]
       ELSE /\ acquirers' = [acquirers EXCEPT ![a].pc = "get_client"]
            /\ pool' = pool
    /\ UNCHANGED <<clients, callers, teardown, rest>>

\* The waiting get of get_client returns: a session was put back.
AcquireGet(a) ==
    /\ acquirers[a].pc = "get_client"
    /\ pool.queue # <<>>
    /\ acquirers' = [acquirers EXCEPT ![a] =
                       [pc |-> "holding", client |-> Head(pool.queue)]]
    /\ pool' = [pool EXCEPT !.queue = Tail(@)]
    /\ UNCHANGED <<clients, callers, teardown, rest>>

\* The block under `async with pool.acquire()` ends, every command it awaited
\* has ended; the finally of acquire releases the session.
BlockReturn(a) ==
    /\ acquirers[a].pc = "holding"
    /\ \A c \in 1..NumCallers : callers[c].owner # a
    /\ pool' = [pool EXCEPT !.queue = ReleaseClient(@, acquirers[a].client)]
    /\ acquirers' = [acquirers EXCEPT ![a] = NoAcquire]
    /\ UNCHANGED <<clients, callers, teardown, rest>>

\* The block raises; the finally of acquire releases the session. The tasks
\* the block started and did not await to their end go on calling the session
\* (asyncio.gather leaves the other awaitables running when one raises).
BlockRaise(a) ==
    /\ acquirers[a].pc = "holding"
    /\ pool' = [pool EXCEPT !.queue = ReleaseClient(@, acquirers[a].client)]
    /\ acquirers' = [acquirers EXCEPT ![a] = [pc |-> "raised", client |-> 0]]
    /\ callers' = [c \in 1..NumCallers |->
                     IF callers[c].owner = a THEN [callers[c] EXCEPT !.owner = 0]
                     ELSE callers[c]]
    /\ UNCHANGED <<clients, teardown, rest>>

\* A task of the block of a calls a command of the session a holds.
CallBegin(c, a, cmd) ==
    /\ callers[c].pc = "idle"
    /\ acquirers[a].pc = "holding"
    /\ callers' = [callers EXCEPT ![c] = [pc |-> "lock_wait",
                                          client |-> acquirers[a].client,
                                          owner |-> a, cmd |-> cmd]]
    /\ UNCHANGED <<pool, clients, acquirers, teardown, rest>>

\* The command enters `async with self._lock`: _require raises on a session
\* without connection, else the command is sent and awaited under the
\* deadline.
CommandSend(c) ==
    /\ callers[c].pc = "lock_wait"
    /\ LockFree(clients[callers[c].client])
    /\ IF clients[callers[c].client].imap = "none"
       THEN /\ callers' = [callers EXCEPT ![c] = NoCall]
            /\ clients' = clients
       ELSE /\ callers' = [callers EXCEPT ![c].pc = "in_flight"]
            /\ clients' = [clients EXCEPT ![callers[c].client].locked = TRUE]
    /\ UNCHANGED <<pool, acquirers, teardown, rest>>

\* The response arrives and the command returns.
CommandReturn(c) ==
    /\ callers[c].pc = "in_flight"
    /\ clients' = [clients EXCEPT ![callers[c].client].locked = FALSE]
    /\ callers' = [callers EXCEPT ![c] = NoCall]
    /\ UNCHANGED <<pool, acquirers, teardown, rest>>

\* The deadline passes or the response is not OK: the command raises.
CommandRaise(c) ==
    /\ callers[c].pc = "in_flight"
    /\ clients' = [clients EXCEPT ![callers[c].client].locked = FALSE]
    /\ callers' = [callers EXCEPT ![c] = NoCall]
    /\ UNCHANGED <<pool, acquirers, teardown, rest>>

\* ImapPool.logout is called.
LogoutBegin ==
    /\ pool.connected
    /\ teardown.pc = "idle"
    /\ teardown' = [pc |-> "loop", idx |-> 1]
    /\ UNCHANGED <<pool, clients, acquirers, callers, rest>>

\* The loop of ImapPool.logout: the next client's logout is called, or the
\* loop is over, _clients is cleared and _connected reset.
LogoutNext ==
    /\ teardown.pc = "loop"
    /\ IF teardown.idx > Len(pool.clients)
       THEN /\ pool' = [pool EXCEPT !.clients = <<>>, !.connected = FALSE]
            /\ teardown' = [teardown EXCEPT !.pc = "done"]
       ELSE /\ pool' = pool
            /\ teardown' = [teardown EXCEPT !.pc = "lock_wait"]
    /\ UNCHANGED <<clients, acquirers, callers, rest>>

\* ImapClient.logout enters `async with self._lock`: it returns at once on a
\* session without connection, else LOGOUT is sent.
LogoutSend ==
    /\ teardown.pc = "lock_wait"
    /\ LockFree(clients[pool.clients[teardown.idx]])
    /\ IF clients[pool.clients[teardown.idx]].imap = "none"
       THEN /\ teardown' = [pc |-> "loop", idx |-> teardown.idx + 1]
            /\ clients' = clients
       ELSE /\ teardown' = [teardown EXCEPT !.pc = "in_flight"]
            /\ clients' = [clients EXCEPT ![pool.clients[teardown.idx]].locked = TRUE]
    /\ UNCHANGED <<pool, acquirers, callers, rest>>

\* self._imap.logout() returns; finally self._imap = None.
LogoutReturn ==
    /\ teardown.pc = "in_flight"
    /\ clients' = [clients EXCEPT ![pool.clients[teardown.idx]] = NewClient]
    /\ teardown' = [pc |-> "loop", idx |-> teardown.idx + 1]
    /\ UNCHANGED <<pool, acquirers, callers, rest>>

\* self._imap.logout() raises; finally self._imap = None; the error leaves
\* ImapClient.logout and the loop of ImapPool.logout.
LogoutRaise ==
    /\ teardown.pc = "in_flight"
    /\ clients' = [clients EXCEPT ![pool.clients[teardown.idx]] = NewClient]
    /\ teardown' = [teardown EXCEPT !.pc = "raised"]
    /\ UNCHANGED <<pool, acquirers, callers, rest>>

ImapSpecInit ==
    /\ messages = <<>>
    /\ folders = <<>>
    /\ files = <<>>
    /\ lastOp = NoOp
    /\ wr = Idle
    /\ okWrites = {}
    /\ server = [uidvalidity |-> NULL]
    /\ run = NoRun
    /\ mailbox_tasks = <<>>
    /\ uid_tasks = <<>>
    /\ queue = <<>>
    /\ workers = <<>>
    /\ gmail = <<>>
    /\ runs = <<>>
    /\ ImapInit

ImapNext ==
    \/ PoolConnect
    \/ \E a \in 1..NumAcquirers : AcquireBegin(a)
    \/ \E a \in 1..NumAcquirers : AcquireGet(a)
    \/ \E a \in 1..NumAcquirers : BlockReturn(a)
    \/ \E a \in 1..NumAcquirers : BlockRaise(a)
    \/ \E c \in 1..NumCallers, a \in 1..NumAcquirers, cmd \in Commands : CallBegin(c, a, cmd)
    \/ \E c \in 1..NumCallers : CommandSend(c)
    \/ \E c \in 1..NumCallers : CommandReturn(c)
    \/ \E c \in 1..NumCallers : CommandRaise(c)
    \/ LogoutBegin
    \/ LogoutNext
    \/ LogoutSend
    \/ LogoutReturn
    \/ LogoutRaise

SpecImap == ImapSpecInit /\ [][ImapNext]_vars

\* ---- C17 ----
InFlight(i) ==
    Cardinality({c \in 1..NumCallers : callers[c].pc = "in_flight" /\ callers[c].client = i})
    + (IF teardown.pc = "in_flight" /\ pool.clients[teardown.idx] = i THEN 1 ELSE 0)

\* C17: on every session at most one command (login, list_mailboxes, select,
\* uid_search, uid_fetch_rfc822, logout) is in flight at any time, whatever
\* the tasks that call it do; a command is sent only when no other command of
\* the session is in flight, so a second caller waits until the first command
\* has returned or raised.
C17_SingleFlight ==
    [][/\ \A i \in 1..PoolSize : InFlight(i)' <= 1
       /\ \A c \in 1..NumCallers :
            (callers[c].pc # "in_flight" /\ callers'[c].pc = "in_flight") =>
                InFlight(callers'[c].client) = 0
       /\ (teardown.pc # "in_flight" /\ teardown'.pc = "in_flight") =>
              InFlight(pool.clients[teardown.idx]) = 0
      ]_vars

C17_Witness ==
    \E c, d \in 1..NumCallers :
        /\ callers[c].pc = "in_flight"
        /\ callers[d].pc = "lock_wait"
        /\ callers[d].client = callers[c].client
        /\ teardown.pc = "lock_wait"
        /\ pool.clients[teardown.idx] = callers[c].client

\* ---- C18 ----
Holding == {a \in 1..NumAcquirers : acquirers[a].pc = "holding"}

CheckoutState ==
    (pool.connected \/ teardown.pc = "done") =>
        /\ \A a, b \in Holding : a # b => acquirers[a].client # acquirers[b].client
        /\ \A a \in Holding, n \in 1..Len(pool.queue) : pool.queue[n] # acquirers[a].client
        /\ Cardinality(Holding) + Len(pool.queue) = PoolSize

\* C18: once ImapPool.connect has returned, whatever the acquirers do, a
\* session is held by at most one acquirer at a time, the sessions checked out
\* and the idle sessions are together as many as the pool size, an acquirer
\* gets a session only from the idle ones and waits while there is none, and
\* the session of a holder is put back when its block returns or raises.
C18_CheckoutDiscipline ==
    [][/\ CheckoutState'
       /\ \A a \in 1..NumAcquirers :
            /\ (acquirers[a].pc # "holding" /\ acquirers'[a].pc = "holding") =>
                   /\ pool.queue # <<>>
                   /\ acquirers'[a].client = Head(pool.queue)
                   /\ pool'.queue = Tail(pool.queue)
            /\ (acquirers[a].pc = "get_client" /\ pool.queue = <<>>) =>
                   acquirers'[a].pc = "get_client"
            /\ (acquirers[a].pc = "holding" /\ acquirers'[a].pc # "holding") =>
                   /\ acquirers'[a].pc \in {"idle", "raised"}
                   /\ pool'.queue = Append(pool.queue, acquirers[a].client)
      ]_vars

C18_Witness ==
    /\ pool.connected
    /\ \E a \in 1..NumAcquirers : acquirers[a].pc = "get_client"
    /\ \E a \in 1..NumAcquirers : acquirers[a].pc = "raised"
    /\ Cardinality(Holding) = PoolSize - 1
    /\ Len(pool.queue) = 1

\* ---- C19 ----
\* C19: when ImapPool.logout has ended, by returning or by raising, every
\* session of the pool has been logged out.
C19_LogoutEverySession ==
    teardown.pc \in {"done", "raised"} =>
        \A i \in 1..PoolSize : clients[i].imap = "none"

\* ---- C21 ----
\* The addresses in the From and To headers of the message at key k (the
\* messages of the model carry no other address header).
AddressesOf(k) ==
    ExtractEmailAddresses(Source[k[1]][k[2]].from_)
        \cup ExtractEmailAddresses(Source[k[1]][k[2]].to)

\* The _process_uid of k takes its step after upsert_message_discovered.
Decides(k) ==
    /\ uid_tasks[k].pc = "upserted"
    /\ uid_tasks'[k].pc # "upserted"
    /\ run'.phase # "off"

SourceFingerprint ==
    [k \in UidKeys |-> ComputeFingerprint(Source[k[1]][k[2]], FingerprintBodyBytes)]

ConfirmedTwin(k, id) ==
    LET fp == SourceFingerprint[k]
    IN \E i \in DOMAIN messages :
         /\ i # id
         /\ messages[i].gmail_message_id # NULL
         /\ \/ fp.message_id_norm # NULL /\ messages[i].message_id_norm = fp.message_id_norm
            \/ messages[i].fingerprint = fp.fingerprint

PassesFilter(k) ==
    run.target_addresses = {} \/ AddressesOf(k) \cap run.target_addresses # {}

PassedChecks(k, ends) ==
    /\ uid_tasks[k].pc \in ends
    /\ uid_tasks[k].id \in DOMAIN messages
    /\ messages[uid_tasks[k].id].status # "imported"
    /\ PassesFilter(k)
    /\ ~ConfirmedTwin(k, uid_tasks[k].id)

EvidenceWritten(k) ==
    LET row == messages[uid_tasks[k].id]
    IN /\ row.status = "downloaded"
       /\ row.eml_path # NULL
       /\ Val(row.eml_path) \in DOMAIN files
       /\ files[Val(row.eml_path)].bytes = Source[k[1]][k[2]]

DryRunState(ends) ==
    (run.phase # "off" /\ run.dry_run) =>
        /\ \A i \in 1..GmailWorkers : workers[i].pc = "none"
        /\ queue = <<>>
        /\ run.jobs = {}
        /\ run.ingest_calls = 0
        /\ \A k \in UidKeys : PassedChecks(k, ends) => EvidenceWritten(k)

\* In a dry run the sink is not called, no row becomes imported or failed,
\* and a downloaded row stays downloaded unless a _process_uid that has just
\* fetched its message is deciding on it.
DryRunStep ==
    (run.phase # "off" /\ run.dry_run) =>
        /\ gmail' = gmail
        /\ \A i \in DOMAIN messages :
             /\ messages'[i].status \in {"imported", "failed"} =>
                    messages'[i].status = messages[i].status
             /\ (messages[i].status = "downloaded" /\ messages'[i].status # "downloaded") =>
                    \E k \in UidKeys : uid_tasks[k].pc = "upserted" /\ uid_tasks[k].id = i

MaxLines == 3

ByteWhitespace == {" ", "CRLF"}

Star == "* LIST "

Flags == "(\\HasNoChildren) \"/\" "

Quote == "\""

Digits == <<"1", "2", "3", "4">>

DigitValue(d) == CHOOSE n \in DOMAIN Digits : Digits[n] = d

\* _LIST_MAILBOX_RE.match(line).group("name"), or NULL without a match.
ListMailboxName(line) ==
    IF Len(line) >= 3 /\ line[1] = Star /\ line[2] = Flags
       /\ StripLeft(SubSeq(line, 3, Len(line)), ByteWhitespace) # <<>>
    THEN Some(StripLeft(SubSeq(line, 3, Len(line)), ByteWhitespace))
    ELSE NULL

\* The name token: from the first to the last quote when it has two quotes,
\* else the last of its blank-separated parts.
NameToken(name) ==
    LET quotes == {i \in DOMAIN name : name[i] = Quote}
        blanks == {i \in DOMAIN name : name[i] \in ByteWhitespace}
    IN IF quotes # {}
       THEN IF Cardinality(quotes) >= 2 THEN SubSeq(name, Min(quotes), Max(quotes))
            ELSE name
       ELSE IF blanks = {} THEN name
            ELSE SubSeq(name, Max(blanks) + 1, Len(name))

\* _LITERAL_RE.match(name_token): {N}
IsLiteral(token) ==
    /\ Len(token) = 3
    /\ token[1] = "{"
    /\ token[2] \in Range(Digits)
    /\ token[3] = "}"

\* _decode_mailbox_name: strip, NIL and the empty name give "", a quoted
\* name loses its quotes, a byte outside ASCII becomes U+FFFD.
DecodeMailboxName(raw) ==
    LET value == Strip(raw, ByteWhitespace)
        unquoted == IF Len(value) >= 2 /\ value[1] = Quote /\ value[Len(value)] = Quote
                    THEN SubSeq(value, 2, Len(value) - 1)
                    ELSE value
    IN IF value = <<>> \/ value = <<"N", "I", "L">> \/ value = <<"n", "i", "l">>
       THEN <<>>
       ELSE [i \in DOMAIN unquoted |-> IF unquoted[i] = "0xE9" THEN "U+FFFD" ELSE unquoted[i]]

\* The while loop of _parse_list_response from index idx on: the names in
\* the order found.
RECURSIVE ParseNames(_, _)
ParseNames(lines, idx) ==
    IF idx > Len(lines) THEN <<>>
    ELSE LET stripped == Strip(lines[idx], ByteWhitespace)
             line == IF stripped # <<>> /\ stripped[1] = Flags
                     THEN <<Star>> \o stripped ELSE stripped
             match == ListMailboxName(line)
         IN IF stripped # <<>> /\ stripped[1] = "+" THEN ParseNames(lines, idx + 1)
            ELSE IF match = NULL THEN ParseNames(lines, idx + 1)
            ELSE LET name_token == NameToken(Strip(Val(match), ByteWhitespace))
                 IN IF IsLiteral(name_token)
                    THEN IF idx + 1 > Len(lines) THEN <<>>
                         ELSE LET name == DecodeMailboxName(Strip(lines[idx + 1], ByteWhitespace))
                              IN (IF name # <<>> THEN <<name>> ELSE <<>>)
                                     \o ParseNames(lines, idx + 2)
                    ELSE LET name == DecodeMailboxName(name_token)
                         IN (IF name # <<>> THEN <<name>> ELSE <<>>)
                                \o ParseNames(lines, idx + 1)

\* The names without their repetitions, in the order first seen.
RECURSIVE Dedupe(_)
Dedupe(names) ==
    IF names = <<>> THEN <<>>
    ELSE LET front == Dedupe(SubSeq(names, 1, Len(names) - 1))
             last == names[Len(names)]
         IN IF last \in Range(front) THEN front ELSE Append(front, last)

ParseListResponse(lines) == Dedupe(ParseNames(lines, 1))

LiteralLine(d) == <<Star, Flags, "{", d, "}", "CRLF">>

\* The response lines of the model.
ListLines ==
    {LiteralLine(Digits[n]) : n \in 2..4}
    \cup {<<Star, Flags, Quote, "a", " ", "b", Quote, "CRLF">>,
          <<Flags, "b", "CRLF">>,
          <<"a", " ", "b", "CRLF">>,
          <<" ", "b", "CRLF">>,
          <<Quote, "b", Quote, "CRLF">>,
          <<"N", "I", "L", "CRLF">>,
          <<"0xE9", "b", "CRLF">>,
          <<Star, Flags, "b", "CRLF">>,
          <<"+", " ", "CRLF">>}

RECURSIVE SeqsUpTo(_, _)
SeqsUpTo(S, n) ==
    IF n = 0 THEN {<<>>}
    ELSE LET shorter == SeqsUpTo(S, n - 1)
         IN shorter \cup {Append(s, x) : s \in shorter, x \in S}

ListInit ==
    /\ messages = <<>>
    /\ folders = <<>>
    /\ files = <<>>
    /\ lastOp = NoOp
    /\ wr = Idle
    /\ okWrites = {}
    /\ server = [uidvalidity |-> NULL]
    /\ run = NoRun
    /\ mailbox_tasks = <<>>
    /\ uid_tasks = <<>>
    /\ queue = <<>>
    /\ workers = <<>>
    /\ gmail = <<>>
    /\ runs = <<>>
    /\ ImapInit

\* list_mailboxes hands the lines of the LIST response to _parse_list_response.
ListParse ==
    /\ \E lines \in SeqsUpTo(ListLines, MaxLines) :
         lastOp' = [op |-> "_parse_list_response", lines |-> lines,
                    out |-> ParseListResponse(lines)]
    /\ UNCHANGED <<messages, folders, files, wr, okWrites, pipe, imap>>

ListNext == ListParse

SpecList == ListInit /\ [][ListNext]_vars

\* ---- C24 ----
\* The first line names its mailbox by a literal {N} and the line after it
\* carries exactly N bytes and the line end.
LiteralAtHead(lines) ==
    /\ Len(lines) >= 2
    /\ \E n \in DOMAIN Digits :
         /\ lines[1] = LiteralLine(Digits[n])
         /\ Len(lines[2]) = n + 1
         /\ lines[2][n + 1] = "CRLF"

\* C24: when a LIST line gives the mailbox name as a literal {N}, the name
\* parsed is exactly the N bytes of the next line, and that next line is not
\* parsed as a LIST line of its own: the names that follow are those of the
\* lines after it.
C24_LiteralName ==
    (lastOp.op = "_parse_list_response" /\ LiteralAtHead(lastOp.lines)) =>
        LET n == Len(lastOp.lines[2]) - 1
        IN lastOp.out = Dedupe(<<SubSeq(lastOp.lines[2], 1, n)>>
                                   \o ParseNames(lastOp.lines, 3))

\* ---------------------------------------------------------------------------
\* SpecVerify: the verify command (cli/app.py) over a ledger the pipeline has
\* left and an evidence directory whose files may have been changed or
\* removed since.
\* ---------------------------------------------------------------------------
MaxVerifyRows == 2

VerifyStatuses == {"discovered", "downloaded", "imported"}

\* The row of UID u of INBOX as the pipeline leaves it in status s.
VerifyRow(u, s) ==
    LET raw == Source["INBOX"][u]
        fp == ComputeFingerprint(raw, FingerprintBodyBytes)
        path == EvidencePath("INBOX", Some(1), u)
        discovered == <<NewRow("INBOX", u, Some(1), fp.message_id_norm, fp.fingerprint,
                               raw.len)>>
        downloaded == MarkDownloaded(discovered, 1, path, Sha256Hex(raw))
        imported == MarkImported(downloaded, 1, <<"msg", u>>, LabelIds("INBOX"))
    IN CASE s = "discovered" -> discovered[1]
         [] s = "downloaded" -> downloaded[1]
         [] s = "imported" -> imported[1]

\* The evidence file write_immutable left for UID u.
VerifyFile(u) == [bytes |-> Source["INBOX"][u], mode |-> "0o444"]

VerifyInit ==
    /\ \E st \in [1..MaxVerifyRows -> VerifyStatuses] :
         /\ messages = [u \in 1..MaxVerifyRows |-> VerifyRow(u, st[u])]
         /\ files = [p \in {EvidencePath("INBOX", Some(1), u) :
                              u \in {v \in 1..MaxVerifyRows : st[v] # "discovered"}}
                       |-> VerifyFile(p[3])]
    /\ folders = <<>>
    /\ lastOp = NoOp
    /\ wr = Idle
    /\ okWrites = {}
    /\ server = [uidvalidity |-> NULL]
    /\ run = NoRun
    /\ mailbox_tasks = <<>>
    /\ uid_tasks = <<>>
    /\ queue = <<>>
    /\ workers = <<>>
    /\ gmail = <<>>
    /\ runs = <<>>
    /\ ImapInit

\* Something outside the program rewrites an evidence file.
VerifyTamper ==
    \E p \in DOMAIN files, raw \in RawMessages :
        /\ files[p].bytes # raw
        /\ files' = PutFile(files, p, [files[p] EXCEPT !.bytes = raw])
        /\ lastOp' = NoOp
        /\ UNCHANGED <<messages, folders, wr, okWrites, pipe, imap>>

\* Something outside the program removes an evidence file.
VerifyRemove ==
    \E p \in DOMAIN files :
        /\ files' = DelFile(files, p)
        /\ lastOp' = NoOp
        /\ UNCHANGED <<messages, folders, wr, okWrites, pipe, imap>>

\* db.iter_messages(status=MessageStatus.downloaded): WHERE status=?
IterMessagesDownloaded(msgs) == {i \in DOMAIN msgs : msgs[i].status = "downloaded"}

\* verify_cmd: the rows with an evidence path and hash are checked; a file
\* that is missing or whose hash differs is a mismatch; exit 1 on any.
VerifyCmd ==
    LET rows == {i \in IterMessagesDownloaded(messages) :
                   messages[i].eml_path # NULL /\ messages[i].eml_sha256 # NULL}
        bad == {i \in rows :
                  \/ Val(messages[i].eml_path) \notin DOMAIN files
                  \/ Sha256Hex(files[Val(messages[i].eml_path)].bytes)
                         # Val(messages[i].eml_sha256)}
    IN /\ lastOp' = [op |-> "verify", checked |-> Cardinality(rows),
                     mismatches |-> Cardinality(bad),
                     counts |-> CountsByStatus(messages),
                     exit_code |-> IF Cardinality(bad) # 0 THEN 1 ELSE 0]
       /\ UNCHANGED <<messages, folders, files, wr, okWrites, pipe, imap>>

VerifyNext ==
    \/ VerifyTamper
    \/ VerifyRemove
    \/ VerifyCmd

SpecVerify == VerifyInit /\ [][VerifyNext]_vars

\* ---- C25 ----
\* The rows verify is to check: status downloaded or imported, evidence path
\* and hash recorded.
ToVerify == {i \in DOMAIN messages : /\ messages[i].status \in {"downloaded", "imported"}
                                     /\ messages[i].eml_path # NULL
                                     /\ messages[i].eml_sha256 # NULL}

HashDiffers(i) ==
    /\ Val(messages[i].eml_path) \in DOMAIN files
    /\ Sha256Hex(files[Val(messages[i].eml_path)].bytes) # Val(messages[i].eml_sha256)

\* C25: verify checks every row whose status is downloaded or imported and
\* whose evidence path and hash are recorded, and exits with code 1 exactly
\* when the file of one of them hashes to something else than the recorded
\* eml_sha256, with code 0 otherwise.
C25_VerifyExitCode ==
    lastOp.op = "verify" =>
        /\ lastOp.checked = Cardinality(ToVerify)
        /\ lastOp.exit_code = IF \E i \in ToVerify : HashDiffers(i) THEN 1 ELSE 0

\* ---------------------------------------------------------------------------
\* C26: a UID left without a ledger row by a fetch that failed is scheduled again
\* ---------------------------------------------------------------------------

\* The UIDs of mailbox m with no ledger row, whatever the row's uidvalidity.
Rowless(msgs, m) ==
    {u \in DOMAIN Source[m] : ~\E id \in DOMAIN msgs : /\ msgs[id].folder = m
                                                       /\ msgs[id].uid = u}

\* The UIDs _process_mailbox has scheduled for mailbox m: the batch being
\* processed and the batches after it.
Scheduled(t) == IF t.pc = "gather" THEN Range(t.batch) \cup Range(t.rest) ELSE {}

\* C26: when _process_mailbox starts on a mailbox in a run without reset that
\* follows an earlier run, every UID of the mailbox that has no ledger row (its
\* fetch failed on every attempt of the earlier run) is among the UIDs the run
\* fetches.
C26_FailedFetchRefetched ==
    [][\A m \in Mailboxes :
          (/\ run.phase # "off"
           /\ ~run.reset
           /\ Len(runs) > 0
           /\ mailbox_tasks[m].pc = "new"
           /\ mailbox_tasks'[m].pc \in {"gather", "done"}) =>
              Rowless(messages, m) \subseteq Scheduled(mailbox_tasks'[m])
      ]_vars

\* ---------------------------------------------------------------------------
\* C27: last_uid_seen of a folder never decreases and never becomes absent
\* ---------------------------------------------------------------------------

\* C27: the server's UIDVALIDITY is fixed; in every step other than
\* reset_skipped_and_failed a folder whose last_uid_seen is set keeps a
\* last_uid_seen, and one at least as high.
C27_CheckpointMonotone ==
    [][\A m \in Mailboxes :
          (LastUidSeen(folders, m) # NULL /\ ~ResetStep) =>
              /\ LastUidSeen(folders', m) # NULL
              /\ Val(LastUidSeen(folders', m)) >= Val(LastUidSeen(folders, m))
      ]_vars

\* A run after an interrupted one has started on the mailbox: both
\* update_folder_checkpoint calls before the batch's tasks rewrote the
\* checkpoint the interrupted run had stored.
C27_Witness ==
    /\ Len(runs) > 0
    /\ ~runs[1].completed
    /\ run.phase = "gather"
    /\ ~run.reset
    /\ \E m \in Mailboxes : /\ mailbox_tasks[m].pc = "gather"
                            /\ mailbox_tasks[m].prior # NULL
                            /\ LastUidSeen(folders, m) = mailbox_tasks[m].prior
                            /\ Val(LastUidSeen(folders, m)) > 0

(***************************************************************************)
(* pipeline/orchestrator.py: retry_async                                   *)
(*                                                                         *)
(* lastOp holds the frame of one retry_async call: its position, the loop  *)
(* variable i, last_exc, and the history of what it awaited (the outcome   *)
(* of every fn() and every asyncio.sleep).                                 *)
(***************************************************************************)
MaxRetryAttempts == 5

\* What fn() can return, and the classes of what it can raise.
FnResults == {"r1", "r2"}
ExceptionClasses == {"ConnectionError", "TimeoutError", "CancelledError"}

\* The classes of the model that derive from Exception: CancelledError derives
\* from BaseException only.
ExceptionSubclasses == {"ConnectionError", "TimeoutError"}

\* except retry_on as exc, with the default retry_on=(Exception,) every caller
\* of the repository uses.
RetryOn(class) == class \in ExceptionSubclasses

\* The instance raised by the i-th await of the frame.
Exc(class, i) == [class |-> class, at |-> i]

ExhaustedAfter(i, attempts) == i > attempts

\* if i >= attempts: break
Exhausted(i, attempts) == i >= attempts

RetryFrame(attempts) ==
    [op |-> "retry_async", pc |-> "call", attempts |-> attempts, i |-> 1,
     last_exc |-> NULL, awaited |-> <<>>, out |-> NULL]

RetryInit ==
    /\ messages = <<>>
    /\ folders = <<>>
    /\ files = <<>>
    /\ lastOp \in {RetryFrame(n) : n \in 1..MaxRetryAttempts}
    /\ wr = Idle
    /\ okWrites = {}
    /\ server = [uidvalidity |-> NULL]
    /\ run = NoRun
    /\ mailbox_tasks = <<>>
    /\ uid_tasks = <<>>
    /\ queue = <<>>
    /\ workers = <<>>
    /\ gmail = <<>>
    /\ runs = <<>>
    /\ ImapInit

\* raise last_exc after the loop (assert last_exc is not None before it).
RaiseLast(f) ==
    IF f.last_exc = NULL THEN [f EXCEPT !.pc = "raised", !.out = Some(Exc("AssertionError", f.i))]
    ELSE [f EXCEPT !.pc = "raised", !.out = f.last_exc]

\* for i in range(1, attempts + 1): try: return await fn()
RetryCall ==
    /\ lastOp.op = "retry_async"
    /\ lastOp.pc = "call"
    /\ lastOp' = [lastOp EXCEPT !.pc = "fn"]
    /\ UNCHANGED <<messages, folders, files, wr, okWrites, pipe, imap>>

\* fn() returns: retry_async returns its result.
FnReturn ==
    /\ lastOp.op = "retry_async"
    /\ lastOp.pc = "fn"
    /\ \E r \in FnResults :
         lastOp' = [lastOp EXCEPT !.pc = "returned", !.out = Some(r),
                       !.awaited = Append(@, [what |-> "fn", ret |-> Some(r), exc |-> NULL])]
    /\ UNCHANGED <<messages, folders, files, wr, okWrites, pipe, imap>>

\* fn() raises: an exception outside retry_on leaves retry_async; one inside
\* it is kept in last_exc, and the loop breaks or sleeps.
FnRaise ==
    /\ lastOp.op = "retry_async"
    /\ lastOp.pc = "fn"
    /\ \E class \in ExceptionClasses :
         LET exc == Exc(class, lastOp.i)
             f == [lastOp EXCEPT !.awaited = Append(@, [what |-> "fn", ret |-> NULL,
                                                        exc |-> Some(exc)])]
         IN lastOp' =
              IF ~RetryOn(class) THEN [f EXCEPT !.pc = "raised", !.out = Some(exc)]
              ELSE IF Exhausted(f.i, f.attempts)
                   THEN RaiseLast([f EXCEPT !.last_exc = Some(exc)])
                   ELSE [f EXCEPT !.last_exc = Some(exc), !.pc = "sleep"]
    /\ UNCHANGED <<messages, folders, files, wr, okWrites, pipe, imap>>

\* await asyncio.sleep(delay) returns: the next iteration of the loop, or the
\* end of the range.
SleepReturn ==
    /\ lastOp.op = "retry_async"
    /\ lastOp.pc = "sleep"
    /\ LET f == [lastOp EXCEPT !.awaited = Append(@, [what |-> "sleep", ret |-> Some("None"),
                                                      exc |-> NULL])]
       IN lastOp' = IF f.i + 1 <= f.attempts
                    THEN [f EXCEPT !.i = @ + 1, !.pc = "call"]
                    ELSE RaiseLast(f)
    /\ UNCHANGED <<messages, folders, files, wr, okWrites, pipe, imap>>

\* The task is cancelled while retry_async sleeps: the sleep is outside the
\* try block.
SleepCancelled ==
    /\ lastOp.op = "retry_async"
    /\ lastOp.pc = "sleep"
    /\ LET exc == Exc("CancelledError", lastOp.i)
       IN lastOp' = [lastOp EXCEPT !.pc = "raised", !.out = Some(exc),
                        !.awaited = Append(@, [what |-> "sleep", ret |-> NULL,
                                               exc |-> Some(exc)])]
    /\ UNCHANGED <<messages, folders, files, wr, okWrites, pipe, imap>>

RetryNext ==
    \/ RetryCall
    \/ FnReturn
    \/ FnRaise
    \/ SleepReturn
    \/ SleepCancelled

SpecRetry == RetryInit /\ [][RetryNext]_vars

\* ---------------------------------------------------------------------------
\* C28: the calls, the sleeps and the outcome of retry_async
\* ---------------------------------------------------------------------------

\* The positions in the history of the frame at which fn() was awaited.
FnCalls(f) == {j \in DOMAIN f.awaited : f.awaited[j].what = "fn"}

Sleeps(f) == {j \in DOMAIN f.awaited : f.awaited[j].what = "sleep"}

RaisedRetryable(a) == a.exc # NULL /\ RetryOn(Val(a.exc).class)

\* C28: fn is called at most attempts times; every call before the last one
\* raised an exception in retry_on, so the first call that returns ends
\* retry_async, which returns that call's result; the awaits alternate between
\* fn and sleep, starting with fn, and no sleep follows the call number
\* attempts; when attempts calls raised an exception in retry_on, retry_async
\* raises the exception of the last one; a call that raises an exception
\* outside retry_on is the last await and retry_async raises that exception.
C28_RetryAsync ==
    lastOp.op = "retry_async" =>
        LET f == lastOp
            n == Len(f.awaited)
        IN /\ Cardinality(FnCalls(f)) + (IF f.pc = "fn" THEN 1 ELSE 0) <= f.attempts
           /\ \A j \in DOMAIN f.awaited :
                 f.awaited[j].what = (IF j % 2 = 1 THEN "fn" ELSE "sleep")
           /\ Cardinality(Sleeps(f)) + (IF f.pc = "sleep" THEN 1 ELSE 0) <= f.attempts - 1
           /\ \A j \in FnCalls(f) :
                 j < n => RaisedRetryable(f.awaited[j])
           /\ \A j \in FnCalls(f) :
                 f.awaited[j].ret # NULL =>
                     f.pc = "returned" /\ j = n /\ f.out = f.awaited[j].ret
           /\ f.pc = "returned" => n > 0 /\ f.awaited[n].what = "fn" /\ f.awaited[n].ret # NULL
           /\ (/\ Cardinality(FnCalls(f)) = f.attempts
               /\ \A j \in FnCalls(f) : RaisedRetryable(f.awaited[j])) =>
                 f.pc = "raised" /\ n = 2 * f.attempts - 1 /\ f.out = f.awaited[n].exc
           /\ \A j \in FnCalls(f) :
                 (f.awaited[j].exc # NULL /\ ~RaisedRetryable(f.awaited[j])) =>
                     f.pc = "raised" /\ j = n /\ f.out = f.awaited[j].exc

\* Every one of the attempts calls raised an exception in retry_on, with a
\* sleep between each two, and retry_async has raised.
C28_Witness ==
    /\ lastOp.op = "retry_async"
    /\ lastOp.attempts = MaxRetryAttempts
    /\ lastOp.pc = "raised"
    /\ Cardinality(FnCalls(lastOp)) = lastOp.attempts
    /\ Cardinality(Sleeps(lastOp)) = lastOp.attempts - 1
    /\ \A j \in FnCalls(lastOp) : RaisedRetryable(lastOp.awaited[j])

(***************************************************************************)
(* gmail/labels.py: GmailLabelCache                                        *)
(*                                                                         *)
(* lastOp holds the cache of one run (_name_to_id), the labels of the      *)
(* account, and the log of the ensure calls made so far.                   *)
(***************************************************************************)
MaxEnsureCalls == 4

\* The responses of labels().list(): a list of labels, or a body without
\* "labels"; a label may lack its "name" or its "id".
Label(name, id) == [name |-> name, id |-> id]

ListResponses ==
    {NULL,
     Some(<<>>),
     Some(<<Label(Some(<<"a">>), Some(<<"Label", 1>>))>>),
     Some(<<Label(Some(<<"a">>), Some(<<"Label", 1>>)),
            Label(Some(<<"b">>), Some(<<"Label", 2>>))>>),
     Some(<<Label(Some(<<"a">>), NULL), Label(Some(<<"b">>), Some(<<"Label", 2>>))>>),
     Some(<<Label(NULL, Some(<<"Label", 1>>)), Label(Some(<<"b">>), Some(<<"Label", 2>>))>>)}

\* The names ensure is called with.
EnsureNames == {<<"a">>, <<" ", "a">>, <<"a", " ">>, <<"b">>, <<" ">>, <<>>}

\* GmailLabelCache.refresh: resp.get("labels", []), and the dict of the labels
\* that have a name and an id; a later label of the same name wins.
Refresh(resp) ==
    LET labels == IF resp = NULL THEN <<>> ELSE Val(resp)
        good == {j \in DOMAIN labels : labels[j].name # NULL /\ labels[j].id # NULL}
        names == {Val(labels[j].name) : j \in good}
    IN [n \in names |->
          Val(labels[Max({j \in good : Val(labels[j].name) = n})].id)]

ExistingNone(name_to_id, normalized) == NULL

\* existing = self._name_to_id.get(normalized); `if existing:` is the test of
\* a string, false for None and for the empty string.
Existing(name_to_id, normalized) ==
    IF normalized \in DOMAIN name_to_id /\ name_to_id[normalized] # <<>>
    THEN Some(name_to_id[normalized])
    ELSE NULL

\* What labels().create(...).execute() does: it returns the new label, it
\* returns something that is not a dict with an "id", or it raises.
CreateOutcomes == {"created", "unexpected", "HttpError"}

LabelsFrame(resp) ==
    [op |-> "ensure", name_to_id |-> Refresh(resp), loaded |-> Refresh(resp),
     next_id |-> 3, log |-> <<>>]

\* GmailLabelCache.from_service at the start of a run.
LabelsInit ==
    /\ messages = <<>>
    /\ folders = <<>>
    /\ files = <<>>
    /\ lastOp \in {LabelsFrame(resp) : resp \in ListResponses}
    /\ wr = Idle
    /\ okWrites = {}
    /\ server = [uidvalidity |-> NULL]
    /\ run = NoRun
    /\ mailbox_tasks = <<>>
    /\ uid_tasks = <<>>
    /\ queue = <<>>
    /\ workers = <<>>
    /\ gmail = <<>>
    /\ runs = <<>>
    /\ ImapInit

\* One call of ensure(name=name): its log entry has the trimmed name, whether
\* create was called and how the call ended.
EnsureResult(f, name, outcome) ==
    LET normalized == Strip(name, Whitespace)
        existing == Existing(f.name_to_id, normalized)
        Entry(create, out, id) ==
            [name |-> normalized, create |-> create, out |-> out, id |-> id]
    IN IF normalized = <<>>
       THEN [f EXCEPT !.log = Append(@, Entry(FALSE, "GmailLabelError", NULL))]
       ELSE IF existing # NULL
       THEN [f EXCEPT !.log = Append(@, Entry(FALSE, "returned", existing))]
       ELSE IF outcome = "HttpError"
       THEN [f EXCEPT !.log = Append(@, Entry(TRUE, "HttpError", NULL))]
       ELSE IF outcome = "unexpected"
       THEN [f EXCEPT !.log = Append(@, Entry(TRUE, "GmailLabelError", NULL))]
       ELSE LET label_id == <<"Label", f.next_id>>
            IN [f EXCEPT !.name_to_id = [n \in DOMAIN @ \cup {normalized} |->
                                            IF n = normalized THEN label_id ELSE @[n]],
                         !.next_id = @ + 1,
                         !.log = Append(@, Entry(TRUE, "returned", Some(label_id)))]

Ensure ==
    /\ lastOp.op = "ensure"
    /\ Len(lastOp.log) < MaxEnsureCalls
    /\ \E name \in EnsureNames, outcome \in CreateOutcomes :
         lastOp' = EnsureResult(lastOp, name, outcome)
    /\ UNCHANGED <<messages, folders, files, wr, okWrites, pipe, imap>>

LabelsNext == Ensure

SpecLabels == LabelsInit /\ [][LabelsNext]_vars

\* ---------------------------------------------------------------------------
\* C29: ensure calls the label-create API for the names the cache lacks
\* ---------------------------------------------------------------------------

\* The ensure calls of the log that called create for the name.
Creates(f, name) == {j \in DOMAIN f.log : f.log[j].create /\ f.log[j].name = name}

\* The ids the ensure calls of the log returned for the name.
ReturnedIds(f, name) ==
    {f.log[j].id : j \in {i \in DOMAIN f.log : f.log[i].name = name /\ f.log[i].out = "returned"}}

\* The last ensure call of the log ended by raising.
LastRaised(f) == f.log # <<>> /\ f.log[Len(f.log)].out # "returned"

\* C29 as stated: in every sequence of ensure calls create is called at most
\* once for a trimmed name and never for a name loaded at the start; the
\* calls that return for a name return one id; a call that raises leaves the
\* cache as it was.
C29_EnsureOnce ==
    [][lastOp'.op = "ensure" =>
          /\ \A name \in {Strip(n, Whitespace) : n \in EnsureNames} :
                /\ Cardinality(Creates(lastOp', name)) <= 1
                /\ name \in DOMAIN lastOp'.loaded => Creates(lastOp', name) = {}
                /\ Cardinality(ReturnedIds(lastOp', name)) <= 1
          /\ LastRaised(lastOp') => lastOp'.name_to_id = lastOp.name_to_id
      ]_vars

\* C29 amended: create is never called for a name loaded at the start nor
\* after a create for that name has returned a label, so at most one create
\* per name returns a label; the calls that return for a name return one id;
\* a call that raises leaves the cache as it was.
C29_EnsureOnceAmended ==
    [][lastOp'.op = "ensure" =>
          /\ \A name \in {Strip(n, Whitespace) : n \in EnsureNames} :
                /\ \A j \in Creates(lastOp', name) :
                      \A i \in Creates(lastOp', name) :
                          i < j => lastOp'.log[i].out # "returned"
                /\ name \in DOMAIN lastOp'.loaded => Creates(lastOp', name) = {}
                /\ Cardinality(ReturnedIds(lastOp', name)) <= 1
          /\ LastRaised(lastOp') => lastOp'.name_to_id = lastOp.name_to_id
      ]_vars

\* A create for a name failed, the next ensure for the name created the
\* label, and a later ensure for the name returned it from the cache; an
\* ensure for a name loaded at the start returned without a create.
C29_Witness ==
    /\ lastOp.op = "ensure"
    /\ \E i, j, k \in DOMAIN lastOp.log :
         /\ i < j /\ j < k
         /\ lastOp.log[i].name = lastOp.log[j].name
         /\ lastOp.log[j].name = lastOp.log[k].name
         /\ lastOp.log[i].create /\ lastOp.log[i].out # "returned"
         /\ lastOp.log[j].create /\ lastOp.log[j].out = "returned"
         /\ ~lastOp.log[k].create /\ lastOp.log[k].id = lastOp.log[j].id
    /\ \E l \in DOMAIN lastOp.log :
         /\ lastOp.log[l].name \in DOMAIN lastOp.loaded
         /\ lastOp.log[l].out = "returned"

\* ---------------------------------------------------------------------------
\* C30: the start UID and the batches of a mailbox scan
\* ---------------------------------------------------------------------------

\* The batches iter_uid_batches has still to yield to _process_mailbox, the
\* one being processed first, as one sequence of UIDs.
YieldSeq(t) == IF t.pc = "gather" THEN t.batch \o t.rest ELSE <<>>

\* The step is the start of the scan of mailbox m.
ScanStarts(m) ==
    /\ run.phase # "off"
    /\ mailbox_tasks[m].pc = "new"
    /\ mailbox_tasks'[m].pc \in {"gather", "done"}

\* C30: the scan of a mailbox starts at last_uid_seen + 1 when the folder row
\* has a last_uid_seen other than 0, and at 1 otherwise; the batches hold
\* exactly the UIDs of the mailbox at or above the start, each once and in
\* ascending order; each batch is the next 1..batch_size of them; the UID of a
\* fetch in progress is above the stored last_uid_seen.
C30_ScanBatches ==
    [][\A m \in Mailboxes :
          /\ ScanStarts(m) =>
                LET last == LastUidSeen(folders, m)
                    start == IF last # NULL /\ Val(last) # 0 THEN Val(last) + 1 ELSE 1
                    seq == YieldSeq(mailbox_tasks'[m])
                IN /\ \A i, j \in DOMAIN seq : i < j => seq[i] < seq[j]
                   /\ Range(seq) = {u \in DOMAIN Source[m] : u >= start}
                   /\ \A u \in Range(seq) : last = NULL \/ u > Val(last)
          /\ BatchEnds(m) => YieldSeq(mailbox_tasks'[m]) = mailbox_tasks[m].rest
          /\ mailbox_tasks'[m].pc = "gather" =>
                /\ Len(mailbox_tasks'[m].batch) >= 1
                /\ Len(mailbox_tasks'[m].batch) <= BatchSize
          /\ \A k \in TasksOf(m) :
                uid_tasks'[k].pc = "fetching" =>
                    /\ k[2] \in Range(mailbox_tasks'[m].batch)
                    /\ \/ LastUidSeen(folders', m) = NULL
                       \/ k[2] > Val(LastUidSeen(folders', m))
      ]_vars

\* A run started the scan above the checkpoint an earlier run stored, and
\* fetches a UID of the batch it was given.
C30_Witness ==
    /\ Len(runs) > 0
    /\ run.phase = "gather"
    /\ \E m \in Mailboxes :
         /\ mailbox_tasks[m].pc = "gather"
         /\ mailbox_tasks[m].prior # NULL
         /\ Val(mailbox_tasks[m].prior) > 0
         /\ \E k \in TasksOf(m) : /\ uid_tasks[k].pc = "fetching"
                                  /\ k[2] = Val(mailbox_tasks[m].prior) + 1

\* ---------------------------------------------------------------------------
\* C31: the target of write_immutable is absent or complete
\* ---------------------------------------------------------------------------

\* The evidence files (not the temp files) of a file system.
TargetFiles(fs) == DOMAIN fs \ TempFiles(fs)

\* The step leaves the files as the claim says: a target file appears only by
\* the rename of the call under way, with the whole bytes of its message, and
\* the bytes of a target file never change; every file that holds less than a
\* whole message has a temp name.
AbsentOrComplete ==
    /\ \A t \in TargetFiles(files') :
          IF t \in TargetFiles(files)
          THEN files'[t].bytes = files[t].bytes
          ELSE wr.pc = "written" /\ t = wr.target /\ files'[t].bytes = wr.raw
    /\ \A q \in DOMAIN files' : files'[q].bytes \notin EmlRaw => q \in TempFiles(files')

\* The step ends a call that raised after it had made its temp file.
EmlRaisesAfterTemp ==
    /\ EmlCallEnds
    /\ wr.pc # "idle"
    /\ lastOp'.outcome = "OSError"

\* C31 as stated: at every point of write_immutable, the death of the process
\* included, the target is absent or whole and a partial file has a temp name;
\* when the call raises after the temp file was made, the temp file is gone.
C31_AtomicWrite ==
    [][/\ AbsentOrComplete
       /\ EmlRaisesAfterTemp => wr.tmp \notin DOMAIN files'
      ]_vars

\* C31 amended: the same, but the temp file of a call that raises is gone
\* only when the unlink of the finally block did not itself raise; when it
\* did, the temp file is left as it was and no other file changes.
C31_AtomicWriteAmended ==
    [][/\ AbsentOrComplete
       /\ EmlRaisesAfterTemp =>
             IF lastOp'.unlink = "OSError"
             THEN files' = files /\ wr.tmp \in TempFiles(files')
             ELSE wr.tmp \notin DOMAIN files'
      ]_vars

\* A call died while it wrote its temp file, which holds a part of the
\* message, and a later call for the same target raised before its rename and
\* removed its own temp file: the target does not exist.
C31_Witness ==
    /\ lastOp.op = "write_immutable"
    /\ lastOp.outcome = "OSError"
    /\ ~lastOp.wrote
    /\ lastOp.unlink = "done"
    /\ lastOp.path \notin DOMAIN files
    /\ \E q \in TempFiles(files) : q[1] = lastOp.path /\ files[q].bytes \notin EmlRaw

\* ---------------------------------------------------------------------------
\* C35: the file of a write_immutable call that returned is read-only
\* ---------------------------------------------------------------------------

\* C35: when a write_immutable call returns, its target file has mode 0o444,
\* whether the call wrote the file or found it, left by an earlier call that
\* ended between its rename and its chmod.
C35_ReadOnlyOnReturn ==
    [][(EmlCallEnds /\ lastOp'.outcome = "ok") =>
          files'[lastOp'.path].mode = "0o444"
      ]_vars

(***************************************************************************)
(* SpecPath: the evidence of two messages, written one after the other by  *)
(* write_immutable; lastOp holds the two keys and what each call did.      *)
(***************************************************************************)
MaxPathUid == 2

PathFolders == {"INBOX", "Sent Messages", "Sent_Messages", "a/b", "a b", ".."}

\* (folder, uidvalidity, uid)
PathKeys == PathFolders \X {NULL, Some(1), Some(2)} \X (1..MaxPathUid)

PathInit ==
    /\ messages = <<>>
    /\ folders = <<>>
    /\ files = <<>>
    /\ lastOp \in {[op |-> "two_writes", keys |-> <<a, b>>, calls |-> <<>>] :
                      a \in PathKeys, b \in PathKeys}
    /\ wr = Idle
    /\ okWrites = {}
    /\ server = [uidvalidity |-> NULL]
    /\ run = NoRun
    /\ mailbox_tasks = <<>>
    /\ uid_tasks = <<>>
    /\ queue = <<>>
    /\ workers = <<>>
    /\ gmail = <<>>
    /\ runs = <<>>
    /\ ImapInit

\* write_immutable for the next of the two keys; the first message is MsgA, the
\* second MsgB.
PathWrite ==
    /\ lastOp.op = "two_writes"
    /\ Len(lastOp.calls) < 2
    /\ LET n == Len(lastOp.calls) + 1
           key == lastOp.keys[n]
           whole == WriteImmutable(files, key[1], key[2], key[3],
                                   IF n = 1 THEN MsgA ELSE MsgB)
       IN /\ files' = whole.files
          /\ lastOp' = [lastOp EXCEPT !.calls =
                           Append(@, [path |-> EvidencePath(key[1], key[2], key[3]),
                                      outcome |-> whole.outcome, wrote |-> whole.wrote])]
    /\ UNCHANGED <<messages, folders, wr, okWrites, pipe, imap>>

PathNext == PathWrite

SpecPath == PathInit /\ [][PathNext]_vars

\* ---------------------------------------------------------------------------
\* C34: two message keys never share an evidence path
\* ---------------------------------------------------------------------------

\* C34: the evidence paths of two different keys (folder, uidvalidity, uid)
\* differ, so the write_immutable call for the second key finds no file and
\* writes its own.
C34_DistinctPaths ==
    (/\ lastOp.op = "two_writes"
     /\ Len(lastOp.calls) = 2
     /\ lastOp.keys[1] # lastOp.keys[2]) =>
        /\ lastOp.calls[1].path # lastOp.calls[2].path
        /\ lastOp.calls[2].outcome = "ok"
        /\ lastOp.calls[2].wrote

\* ---------------------------------------------------------------------------
\* C36: run() logs the pool out and closes the ledger on every way it ends
\* ---------------------------------------------------------------------------

\* C36: when run() ends, by returning or because a mailbox task raised, after
\* its sink workers have exited, every pool session has been logged out and the
\* ledger has been closed.
C36_TeardownOnEveryPath ==
    [][(/\ run.phase # "off"
        /\ run'.phase = "off"
        /\ \/ run.phase = "closed"
           \/ WorkersDrained /\ run.raised /\ ~run.cancelled) =>
          /\ run.logged_out
          /\ run.closed
      ]_vars

(***************************************************************************)
(* SpecEpoch: the start of a mailbox scan over a ledger that earlier runs  *)
(* left, on a server that may have given the folder a new UIDVALIDITY      *)
(* since.                                                                  *)
(***************************************************************************)
MaxEpoch == 2

\* The folder rows an earlier run can have left: none, or the UIDVALIDITY it
\* saw and the checkpoint it reached.
EpochFolders ==
    {<<>>} \cup {"INBOX" :> [uidvalidity |-> uv, last_uid_seen |-> l] :
                    uv \in UidValidities,
                    l \in {NULL} \cup {Some(n) : n \in 0..Cardinality(DOMAIN Source["INBOX"])}}

EpochInit ==
    /\ messages = <<>>
    /\ folders \in EpochFolders
    /\ files = <<>>
    /\ lastOp = NoOp
    /\ wr = Idle
    /\ okWrites = {}
    /\ server = [uidvalidity |-> IF folders = <<>> THEN NULL
                                 ELSE folders["INBOX"].uidvalidity]
    /\ run = NoRun
    /\ mailbox_tasks = [m \in Mailboxes |-> [pc |-> "none"]]
    /\ uid_tasks = [k \in UidKeys |-> NoTask]
    /\ queue = <<>>
    /\ workers = [i \in 1..GmailWorkers |-> [pc |-> "none"]]
    /\ gmail = <<>>
    /\ runs = <<>>
    /\ ImapInit

\* Between two runs the server gives the folder another UIDVALIDITY, which
\* the next SELECT reports.
EpochChange ==
    /\ run.phase = "off"
    /\ \E v \in 1..MaxEpoch :
         /\ server.uidvalidity # Some(v)
         /\ server' = [server EXCEPT !.uidvalidity = Some(v)]
    /\ UNCHANGED <<imap, messages, folders, files, lastOp, wr, okWrites, run, mailbox_tasks,
                   uid_tasks, queue, workers, gmail, runs>>

EpochNext ==
    \/ EpochChange
    \/ RunStart
    \/ \E m \in Mailboxes : MailboxStart(m)

SpecEpoch == EpochInit /\ [][EpochNext]_vars

\* ---------------------------------------------------------------------------
\* C37: a new UIDVALIDITY makes the scan of the folder start at UID 1
\* ---------------------------------------------------------------------------

\* C37: when the scan of a mailbox starts and the UIDVALIDITY the server
\* reports is not the one stored in the folder row, the last_uid_seen of the
\* row skips nothing: the batches hold every UID of the mailbox.
C37_NewEpochScansAll ==
    [][\A m \in Mailboxes :
          (/\ ScanStarts(m)
           /\ m \in DOMAIN folders
           /\ folders[m].uidvalidity # server.uidvalidity) =>
              Range(YieldSeq(mailbox_tasks'[m])) = DOMAIN Source[m]
      ]_vars

\* ---------------------------------------------------------------------------
\* C32: two copies of one message are not both ingested in one run
\* ---------------------------------------------------------------------------

\* Rows i and j are copies of one message: equal fingerprints, or equal
\* normalized Message-IDs.
SameMessage(i, j) ==
    \/ messages[i].fingerprint = messages[j].fingerprint
    \/ /\ messages[i].message_id_norm # NULL
       /\ messages[i].message_id_norm = messages[j].message_id_norm

\* C32: during the first run over an empty ledger, whatever the interleaving
\* of the _process_uid tasks and the sink workers, two different rows that are
\* copies of one message are never both imported.
C32_NoDoubleIngest ==
    (run.phase # "off" /\ Len(runs) = 0) =>
        \A i, j \in DOMAIN messages :
            (i # j /\ SameMessage(i, j)) =>
                ~(messages[i].status = "imported" /\ messages[j].status = "imported")

(***************************************************************************)
(* SpecSessions: the mailbox tasks of one run, the pool sessions they      *)
(* check out and select, and the UID FETCH commands of their _process_uid  *)
(* tasks. clients[c] is a session: the mailbox it has selected and whether *)
(* its command lock is held; the ledger and the sink are left out.         *)
(***************************************************************************)
SessPoolSize == 1
NumSessMailboxes == 2
SessUids == 2

SessMailboxes == 1..NumSessMailboxes

SessKeys == SessMailboxes \X (1..SessUids)

SessTasksOf(m) == {k \in SessKeys : k[1] = m}

\* run() after pool.connect() and the discovery: every session is in the
\* pool's queue, no mailbox selected for a task yet; the mailbox tasks are
\* created.
SessInit ==
    /\ messages = <<>>
    /\ folders = <<>>
    /\ files = <<>>
    /\ lastOp = NoOp
    /\ wr = Idle
    /\ okWrites = {}
    /\ server = [uidvalidity |-> NULL]
    /\ run = [phase |-> "gather"]
    /\ mailbox_tasks = [m \in SessMailboxes |-> [pc |-> "new", client |-> 0]]
    /\ uid_tasks = [k \in SessKeys |-> [pc |-> "none", on |-> NULL]]
    /\ queue = <<>>
    /\ workers = <<>>
    /\ gmail = <<>>
    /\ runs = <<>>
    /\ pool = [clients |-> [i \in 1..SessPoolSize |-> i],
               queue |-> [i \in 1..SessPoolSize |-> i],
               connected |-> TRUE, failed |-> FALSE]
    /\ clients = [i \in 1..SessPoolSize |-> [selected |-> NULL, locked |-> FALSE]]
    /\ acquirers = <<>>
    /\ callers = <<>>
    /\ teardown = NoTeardown

SessRest == <<messages, folders, files, lastOp, wr, okWrites, server, queue, workers, gmail,
              runs, acquirers, callers, teardown>>

\* _mailbox_worker: async with pool.acquire() as client -- get_client takes the
\* session at the head of the pool's queue, or waits.
SessAcquire(m) ==
    /\ run.phase = "gather"
    /\ mailbox_tasks[m].pc = "new"
    /\ pool.queue # <<>>
    /\ mailbox_tasks' = [mailbox_tasks EXCEPT ![m] = [pc |-> "acquired",
                                                      client |-> Head(pool.queue)]]
    /\ pool' = [pool EXCEPT !.queue = Tail(@)]
    /\ UNCHANGED <<SessRest, run, uid_tasks, clients>>

\* _process_mailbox: iter_uid_batches selects the mailbox on the task's
\* session and searches it; the _process_uid tasks of the batch are created.
SessSelect(m) ==
    /\ run.phase = "gather"
    /\ mailbox_tasks[m].pc = "acquired"
    /\ ~clients[mailbox_tasks[m].client].locked
    /\ clients' = [clients EXCEPT ![mailbox_tasks[m].client].selected = Some(m)]
    /\ mailbox_tasks' = [mailbox_tasks EXCEPT ![m].pc = "gather"]
    /\ uid_tasks' = [k \in SessKeys |-> IF k[1] = m THEN [pc |-> "waiting", on |-> NULL]
                                        ELSE uid_tasks[k]]
    /\ UNCHANGED <<SessRest, run, pool>>

\* _process_uid: async with sem, fetcher.fetch_rfc822(uid) -- the UID FETCH is
\* sent on the session of the task's fetcher once its lock is free; `on` is the
\* mailbox that session has selected.
SessFetchSend(k) ==
    LET c == mailbox_tasks[k[1]].client
    IN /\ run.phase = "gather"
       /\ uid_tasks[k].pc = "waiting"
       /\ Cardinality({j \in SessTasksOf(k[1]) : uid_tasks[j].pc = "fetching"})
              < FetchConcurrency
       /\ ~clients[c].locked
       /\ clients' = [clients EXCEPT ![c].locked = TRUE]
       /\ uid_tasks' = [uid_tasks EXCEPT ![k] = [pc |-> "fetching",
                                                 on |-> clients[c].selected]]
       /\ UNCHANGED <<SessRest, run, mailbox_tasks, pool>>

\* The fetch returns and the rest of _process_uid returns.
SessUidDone(k) ==
    /\ run.phase = "gather"
    /\ uid_tasks[k].pc = "fetching"
    /\ clients' = [clients EXCEPT ![mailbox_tasks[k[1]].client].locked = FALSE]
    /\ uid_tasks' = [uid_tasks EXCEPT ![k].pc = "done"]
    /\ UNCHANGED <<SessRest, run, mailbox_tasks, pool>>

\* The fetch returns and the rest of _process_uid raises (write_immutable,
\* the ledger, label_cache.ensure).
SessUidRaise(k) ==
    /\ run.phase = "gather"
    /\ uid_tasks[k].pc = "fetching"
    /\ clients' = [clients EXCEPT ![mailbox_tasks[k[1]].client].locked = FALSE]
    /\ uid_tasks' = [uid_tasks EXCEPT ![k].pc = "raised"]
    /\ UNCHANGED <<SessRest, run, mailbox_tasks, pool>>

\* gather(*tasks) returns: _process_mailbox returns and pool.acquire() puts
\* the session back.
SessMailboxDone(m) ==
    /\ run.phase = "gather"
    /\ mailbox_tasks[m].pc = "gather"
    /\ \A k \in SessTasksOf(m) : uid_tasks[k].pc = "done"
    /\ mailbox_tasks' = [mailbox_tasks EXCEPT ![m].pc = "done"]
    /\ pool' = [pool EXCEPT !.queue = Append(@, mailbox_tasks[m].client)]
    /\ UNCHANGED <<SessRest, run, uid_tasks, clients>>

\* gather(*tasks) re-raises the exception of a _process_uid: _process_mailbox
\* ends with it and pool.acquire() puts the session back; gather does not
\* cancel the other _process_uid tasks of the batch.
SessMailboxRaise(m) ==
    /\ run.phase = "gather"
    /\ mailbox_tasks[m].pc = "gather"
    /\ \E k \in SessTasksOf(m) : uid_tasks[k].pc = "raised"
    /\ mailbox_tasks' = [mailbox_tasks EXCEPT ![m].pc = "raised"]
    /\ pool' = [pool EXCEPT !.queue = Append(@, mailbox_tasks[m].client)]
    /\ UNCHANGED <<SessRest, run, uid_tasks, clients>>

\* run() ends: every mailbox task returned, or one raised and the finally block
\* (the sentinels, the gather of the sink workers) is over; tasks still alive
\* end with the event loop.
SessRunEnd ==
    /\ run.phase = "gather"
    /\ \/ \A m \in SessMailboxes : mailbox_tasks[m].pc = "done"
       \/ \E m \in SessMailboxes : mailbox_tasks[m].pc = "raised"
    /\ run' = [phase |-> "ended"]
    /\ UNCHANGED <<SessRest, mailbox_tasks, uid_tasks, pool, clients>>

SessNext ==
    \/ \E m \in SessMailboxes : SessAcquire(m)
    \/ \E m \in SessMailboxes : SessSelect(m)
    \/ \E k \in SessKeys : SessFetchSend(k)
    \/ \E k \in SessKeys : SessUidDone(k)
    \/ \E k \in SessKeys : SessUidRaise(k)
    \/ \E m \in SessMailboxes : SessMailboxDone(m)
    \/ \E m \in SessMailboxes : SessMailboxRaise(m)
    \/ SessRunEnd

SpecSessions == SessInit /\ [][SessNext]_vars

\* ---------------------------------------------------------------------------
\* C33: a UID FETCH runs on a session that has the UID's mailbox selected
\* ---------------------------------------------------------------------------

\* C33: for every number of mailboxes and every interleaving, the session on
\* which the UID FETCH of a UID of mailbox m is sent has m selected, and keeps
\* it selected while the command is under way.
C33_FetchOnSelectedMailbox ==
    \A k \in SessKeys :
        (run.phase = "gather" /\ uid_tasks[k].pc = "fetching") =>
            /\ uid_tasks[k].on = Some(k[1])
            /\ clients[mailbox_tasks[k[1]].client].selected = Some(k[1])

\* ---------------------------------------------------------------------------
\* C38: rows left downloaded are ingested by the next completed run
\* ---------------------------------------------------------------------------

\* C38: when a run that is not a dry run and does not reset completes after an
\* earlier run, no row is left in status downloaded: the rows the earlier run
\* left downloaded were enqueued and are imported or failed. (The server
\* reports a UIDVALIDITY, so every key has one row.)
C38_DownloadedResumed ==
    [][(/\ run.phase = "closed"
        /\ run'.phase = "off"
        /\ ~run.dry_run
        /\ ~run.reset
        /\ Len(runs) > 0
        /\ server.uidvalidity # NULL) =>
          \A id \in DOMAIN messages : messages[id].status # "downloaded"
      ]_vars

\* ---------------------------------------------------------------------------
\* C40: no sink job is enqueued after a sentinel
\* ---------------------------------------------------------------------------

\* The finally block of run() has put a sentinel on the queue.
SentinelEnqueued ==
    /\ run.phase \in {"finally", "counts", "closed"}
    /\ ~run.dry_run
    /\ run.sentinels < GmailWorkers

\* The step puts a sink job on the queue.
JobEnqueued ==
    /\ run.phase # "off"
    /\ run'.phase # "off"
    /\ Len(queue') = Len(queue) + 1
    /\ queue'[Len(queue')] # NULL

\* C40: no step puts a sink job on the queue once a sentinel has been put, and
\* when every sink worker has exited every job the run has put is imported or
\* failed; also when a mailbox task has raised.
C40_NoJobAfterSentinel ==
    [][/\ JobEnqueued => ~SentinelEnqueued
       /\ (WorkersDrained' /\ ~run'.dry_run) =>
             \A id \in run'.jobs : messages'[id].status \in {"imported", "failed"}
      ]_vars

(***************************************************************************)
(* SpecLive: the waits of one run that is not a dry run -- the pool, the   *)
(* queue, the sentinels -- with the mailbox tasks, their _process_uid      *)
(* calls one at a time, and the sink workers. Every await returns or       *)
(* raises; the scheduler is fair.                                          *)
(***************************************************************************)
LivePoolSize == 1
LiveMailboxes == 2
LiveUids == 2
LiveQueueMaxsize == 1
LiveWorkers == 1

LiveInit ==
    /\ messages = <<>>
    /\ folders = <<>>
    /\ files = <<>>
    /\ lastOp = NoOp
    /\ wr = Idle
    /\ okWrites = {}
    /\ server = [uidvalidity |-> NULL]
    /\ run = [phase |-> "gather", sentinels |-> 0]
    /\ mailbox_tasks = [m \in 1..LiveMailboxes |-> [pc |-> "new", left |-> LiveUids]]
    /\ uid_tasks = <<>>
    /\ queue = <<>>
    /\ workers = [i \in 1..LiveWorkers |-> [pc |-> "get"]]
    /\ gmail = <<>>
    /\ runs = <<>>
    /\ pool = [clients |-> [i \in 1..LivePoolSize |-> i],
               queue |-> [i \in 1..LivePoolSize |-> i],
               connected |-> TRUE, failed |-> FALSE]
    /\ clients = <<>>
    /\ acquirers = <<>>
    /\ callers = <<>>
    /\ teardown = NoTeardown

LiveRest == <<messages, folders, files, lastOp, wr, okWrites, server, uid_tasks, gmail,
              runs, clients, acquirers, callers, teardown>>

\* _mailbox_worker: pool.acquire() gets a session, or waits for one.
LiveAcquire(m) ==
    /\ mailbox_tasks[m].pc = "new"
    /\ pool.queue # <<>>
    /\ mailbox_tasks' = [mailbox_tasks EXCEPT ![m].pc = "scan"]
    /\ pool' = [pool EXCEPT !.queue = Tail(@)]
    /\ UNCHANGED <<LiveRest, run, queue, workers>>

\* A _process_uid that returns without a job: its fetch failed, or the
\* message was filtered out or a duplicate.
LiveUidSkip(m) ==
    /\ mailbox_tasks[m].pc = "scan"
    /\ mailbox_tasks[m].left > 0
    /\ mailbox_tasks' = [mailbox_tasks EXCEPT ![m].left = @ - 1]
    /\ UNCHANGED <<LiveRest, run, queue, workers, pool>>

\* A _process_uid up to its queue.put.
LiveUidDownloaded(m) ==
    /\ mailbox_tasks[m].pc = "scan"
    /\ mailbox_tasks[m].left > 0
    /\ mailbox_tasks' = [mailbox_tasks EXCEPT ![m].pc = "putting"]
    /\ UNCHANGED <<LiveRest, run, queue, workers, pool>>

\* await queue.put(GmailWorkItem(...)): it waits while the queue is full.
LiveUidPut(m) ==
    /\ mailbox_tasks[m].pc = "putting"
    /\ Len(queue) < LiveQueueMaxsize
    /\ queue' = Append(queue, Some(m))
    /\ mailbox_tasks' = [mailbox_tasks EXCEPT ![m] = [pc |-> "scan", left |-> @.left - 1]]
    /\ UNCHANGED <<LiveRest, run, workers, pool>>

\* A _process_uid raises: the mailbox task ends with it; the session goes
\* back to the pool.
LiveMailboxRaise(m) ==
    /\ mailbox_tasks[m].pc = "scan"
    /\ mailbox_tasks[m].left > 0
    /\ mailbox_tasks' = [mailbox_tasks EXCEPT ![m].pc = "raised"]
    /\ pool' = [pool EXCEPT !.queue = Append(@, Len(@) + 1)]
    /\ UNCHANGED <<LiveRest, run, queue, workers>>

\* The last batch is done: the mailbox task returns; the session goes back to
\* the pool.
LiveMailboxDone(m) ==
    /\ mailbox_tasks[m].pc = "scan"
    /\ mailbox_tasks[m].left = 0
    /\ mailbox_tasks' = [mailbox_tasks EXCEPT ![m].pc = "done"]
    /\ pool' = [pool EXCEPT !.queue = Append(@, Len(@) + 1)]
    /\ UNCHANGED <<LiveRest, run, queue, workers>>

\* await asyncio.gather(*mailbox_tasks) returns, or re-raises the first
\* exception: the finally block has one sentinel to put for each worker.
LiveGatherDone ==
    /\ run.phase = "gather"
    /\ \/ \A m \in 1..LiveMailboxes : mailbox_tasks[m].pc = "done"
       \/ \E m \in 1..LiveMailboxes : mailbox_tasks[m].pc = "raised"
    /\ run' = [phase |-> "finally", sentinels |-> LiveWorkers]
    /\ UNCHANGED <<LiveRest, mailbox_tasks, queue, workers, pool>>

\* for _ in workers: await queue.put(None)
LivePutSentinel ==
    /\ run.phase = "finally"
    /\ run.sentinels > 0
    /\ Len(queue) < LiveQueueMaxsize
    /\ queue' = Append(queue, NULL)
    /\ run' = [run EXCEPT !.sentinels = @ - 1]
    /\ UNCHANGED <<LiveRest, mailbox_tasks, workers, pool>>

\* item = await queue.get(): the sentinel ends the worker, a job starts the
\* ingest.
LiveWorkerGet(i) ==
    /\ workers[i].pc = "get"
    /\ queue # <<>>
    /\ queue' = Tail(queue)
    /\ workers' = [workers EXCEPT ![i].pc = IF Head(queue) = NULL THEN "exited"
                                            ELSE "ingest"]
    /\ UNCHANGED <<LiveRest, run, mailbox_tasks, pool>>

\* The ingest returns and mark_imported returns, or one of them raises and
\* mark_failed returns: the worker loops.
LiveWorkerMarked(i) ==
    /\ workers[i].pc = "ingest"
    /\ workers' = [workers EXCEPT ![i].pc = "get"]
    /\ UNCHANGED <<LiveRest, run, mailbox_tasks, queue, pool>>

\* The ingest or mark_imported raises and mark_failed, called in the except
\* block, raises too: the exception leaves _gmail_worker and its task ends.
LiveWorkerRaise(i) ==
    /\ workers[i].pc = "ingest"
    /\ workers' = [workers EXCEPT ![i].pc = "raised"]
    /\ UNCHANGED <<LiveRest, run, mailbox_tasks, queue, pool>>

\* await asyncio.gather(*workers, return_exceptions=True) returns; run() goes
\* on to its end.
LiveWorkersGathered ==
    /\ run.phase = "finally"
    /\ run.sentinels = 0
    /\ \A i \in 1..LiveWorkers : workers[i].pc \in {"exited", "raised"}
    /\ run' = [run EXCEPT !.phase = "ended"]
    /\ UNCHANGED <<LiveRest, mailbox_tasks, queue, workers, pool>>

LiveNext ==
    \/ \E m \in 1..LiveMailboxes : LiveAcquire(m)
    \/ \E m \in 1..LiveMailboxes : LiveUidSkip(m)
    \/ \E m \in 1..LiveMailboxes : LiveUidDownloaded(m)
    \/ \E m \in 1..LiveMailboxes : LiveUidPut(m)
    \/ \E m \in 1..LiveMailboxes : LiveMailboxRaise(m)
    \/ \E m \in 1..LiveMailboxes : LiveMailboxDone(m)
    \/ LiveGatherDone
    \/ LivePutSentinel
    \/ \E i \in 1..LiveWorkers : LiveWorkerGet(i)
    \/ \E i \in 1..LiveWorkers : LiveWorkerMarked(i)
    \/ \E i \in 1..LiveWorkers : LiveWorkerRaise(i)
    \/ LiveWorkersGathered

\* Every task that can take a step eventually takes one, and every call that
\* was made eventually returns or raises.
LiveFairness ==
    /\ \A m \in 1..LiveMailboxes :
          /\ WF_vars(LiveAcquire(m))
          /\ WF_vars(LiveUidSkip(m) \/ LiveUidDownloaded(m) \/ LiveMailboxRaise(m))
          /\ WF_vars(LiveUidPut(m))
          /\ WF_vars(LiveMailboxDone(m))
    /\ WF_vars(LiveGatherDone)
    /\ WF_vars(LivePutSentinel)
    /\ \A i \in 1..LiveWorkers :
          /\ WF_vars(LiveWorkerGet(i))
          /\ WF_vars(LiveWorkerMarked(i) \/ LiveWorkerRaise(i))
    /\ WF_vars(LiveWorkersGathered)

SpecLive == LiveInit /\ [][LiveNext]_vars /\ LiveFairness

\* ---------------------------------------------------------------------------
\* C39: run() terminates
\* ---------------------------------------------------------------------------

\* C39: under fair scheduling, with every call returning or raising, run()
\* reaches its end: gather(*workers) returns, no mailbox task and no sink
\* worker still waiting on the pool, the semaphore or the queue.
C39_RunTerminates == <>(run.phase = "ended")
====
